---- MODULE Spec2Model ----
(***************************************************************************)
(* Model of the Hivemind task scheduling subsystem of ultronix:            *)
(* PriorityQueue (queue.go), taskMonitor and StatsCollector (monitor.go),  *)
(* the selectors (selector.go) and the defaultScheduler facade.            *)
(***************************************************************************)
EXTENDS Integers, Sequences, FiniteSets, TLC

VARIABLES
    heap,       \* PriorityQueue.heap: the requestHeap array of heapItems
    seq,        \* PriorityQueue.seq: insertion counter
    dequeued,   \* what the last Dequeue call returned (a one-element sequence, or << >> for nil)
    priority,   \* Task.Priority of every task object
    timeout,    \* Task.Timeout of every task object (0: use the default)
    task,       \* the mutable fields of every task object: Status, AssignedNodeID, StartedAt, CompletedAt
    req,        \* the ScheduleRequest submitted for every task
    tasks,      \* defaultScheduler.tasks: taskID -> taskRecord
    watched,    \* taskMonitor.watched: taskID -> watchedTask (times as elapsed times)
    stats,      \* StatsCollector: the counters and the running map
    events,     \* the TaskEvents delivered to a listener, by the task ID the emitting call was about
    dispatchCalls, \* the node IDs TaskDispatcher.Dispatch was called with, by task
    sched,      \* the Schedule call of every task: where it is and what it returned
    loop,       \* the scheduleLoop goroutine: where processQueue is
    budget,     \* how many events the model lets the scheduler emit
    selection,  \* the build's sort.Slice, and the last direct call of a selector
    stop,       \* stopCh (closed or not) and which background loops have returned
    config,     \* a SchedulerConfig, its collaborators and what Complete returned for them
    run,        \* each goroutine's call stack and the mutexes it holds
    subs,       \* s.listeners, the emitEvent calls in progress and what the listeners received
    snaps       \* StatsCollector's NodeStats map and the SchedulerStats values Snapshot returned, as objects in memory

\* --------------------------------------------------------------------------
\* Bounds of the model
\* --------------------------------------------------------------------------

MaxQueue == 4

MaxSeq == 6

MaxPriority == 2

Tasks == {"t1", "t2"}

Priorities == 1..MaxPriority

MaxEvents == 3

MaxSilentEvents == 5

\* SchedulerConfig.MaxRetries, as configured in this model
MaxRetries == 1

\* SchedulerConfig.DispatchConcurrency, as configured in this model
DispatchConcurrency == 1

\* MonitorConfig.StallThreshold and MonitorConfig.DefaultTimeout, in clock ticks
StallThreshold == 1

DefaultTimeout == 2

\* A task is dispatched at most once more than it may be retried.
MaxDispatch == MaxRetries + 1

\* --------------------------------------------------------------------------
\* queue.go: requestHeap and container/heap
\* --------------------------------------------------------------------------

\* taskPriorityToInt: int(p)
taskPriorityToInt(p) == p

\* A Less that compares priorities only, without the seq tie-break.
ItemLessNoSeq(a, b) == a.priority > b.priority

\* requestHeap.Less on two heap items: higher priority first, then lower seq.
ItemLess(a, b) ==
    IF a.priority # b.priority
    THEN a.priority > b.priority
    ELSE a.seq < b.seq

\* requestHeap.Less(i, j), 0-based indices as in the source.
Less(h, i, j) == ItemLess(h[i + 1], h[j + 1])

\* requestHeap.Swap(i, j)
Swap(h, i, j) == [h EXCEPT ![i + 1] = h[j + 1], ![j + 1] = h[i + 1]]

\* container/heap up(h, j)
RECURSIVE up(_, _)
up(h, j) ==
    LET i == IF j = 0 THEN 0 ELSE (j - 1) \div 2
    IN  IF i = j \/ ~Less(h, j, i)
        THEN h
        ELSE up(Swap(h, i, j), i)

\* container/heap down(h, i0, n): the heap after sifting, and the final index.
RECURSIVE downFrom(_, _, _)
downFrom(h, i, n) ==
    LET j1 == 2 * i + 1
    IN  IF j1 >= n
        THEN [h |-> h, i |-> i]
        ELSE LET j == IF j1 + 1 < n /\ Less(h, j1 + 1, j1) THEN j1 + 1 ELSE j1
             IN  IF ~Less(h, j, i)
                 THEN [h |-> h, i |-> i]
                 ELSE downFrom(Swap(h, i, j), j, n)

\* heap.Push(h, item): requestHeap.Push appends, then up(len-1).
HeapPush(h, item) == up(Append(h, item), Len(h))

\* heap.Pop(h): Swap(0, n); down(0, n); requestHeap.Pop drops the last element.
HeapPop(h) ==
    LET n == Len(h) - 1
        d == downFrom(Swap(h, 0, n), 0, n)
    IN  [item |-> d.h[n + 1], h |-> SubSeq(d.h, 1, n)]

\* A heap.Remove that swaps the item with the last one and pops it, without
\* restoring the heap order.
HeapRemoveNoFix(h, i) ==
    LET n == Len(h) - 1
        s == IF n # i THEN Swap(h, i, n) ELSE h
    IN  [item |-> s[n + 1], h |-> SubSeq(s, 1, n)]

\* heap.Remove(h, i)
HeapRemove(h, i) ==
    LET n == Len(h) - 1
        s == IF n # i THEN Swap(h, i, n) ELSE h
        d == IF n # i THEN downFrom(s, i, n) ELSE [h |-> s, i |-> i]
        f == IF n # i /\ ~(d.i > i) THEN up(d.h, i) ELSE d.h
    IN  [item |-> f[n + 1], h |-> SubSeq(f, 1, n)]

\* The index of the first heap item whose request has this task ID, or -1.
FirstIndexOf(h, t) ==
    IF \E k \in 1..Len(h) : h[k].task = t
    THEN (CHOOSE k \in 1..Len(h) :
            h[k].task = t /\ \A m \in 1..(k - 1) : h[m].task # t) - 1
    ELSE -1

\* PriorityQueue.Enqueue: the queue after it.
QEnqueue(h, s, t, prio) ==
    [seq |-> s + 1,
     h   |-> HeapPush(h, [task |-> t, priority |-> taskPriorityToInt(prio), seq |-> s + 1])]

\* PriorityQueue.Dequeue: the request returned (<< >> for nil) and the heap left.
QDequeue(h) ==
    IF Len(h) = 0
    THEN [ret |-> << >>, h |-> h]
    ELSE LET p == HeapPop(h) IN [ret |-> <<p.item>>, h |-> p.h]

\* PriorityQueue.Peek
QPeek(h) == IF Len(h) = 0 THEN << >> ELSE <<h[1]>>

\* PriorityQueue.Len
QLen(h) == Len(h)

\* PriorityQueue.Remove
QRemove(h, t) ==
    LET i == FirstIndexOf(h, t)
    IN  IF i >= 0
        THEN [ok |-> TRUE, h |-> HeapRemove(h, i).h]
        ELSE [ok |-> FALSE, h |-> h]

\* PriorityQueue.Drain: pops everything, in pop order.
RECURSIVE QDrain(_)
QDrain(h) ==
    IF Len(h) = 0 THEN << >>
    ELSE LET p == HeapPop(h) IN <<p.item>> \o QDrain(p.h)

\* --------------------------------------------------------------------------
\* task.go: requests and profiles (the inputs of the model)
\* --------------------------------------------------------------------------

\* ScheduleMode constants; any other string is an unknown mode.
DirectMode == "direct"

AIMode == "ai"

\* An empty map[string]string.
NoTags == << >>

\* A GolemProfile: NodeInfo.ID, NodeInfo.Status, capability names, Load,
\* SystemInfo, InstalledSkills (ID and Name of each), SupportedFeatures and Tags.
Profile(id, status, caps, cpu, active) ==
    [id |-> id, status |-> status, caps |-> caps,
     cpuPercent |-> cpu, memoryPercent |-> 0, diskFreeMB |-> 10240,
     activeTasks |-> active, queuedTasks |-> 0, tags |-> NoTags,
     skills |-> << >>, features |-> << >>, cpuCores |-> 4, memoryMB |-> 8192]

\* A nil *ResourceRequirements.
NoRequirements ==
    [set |-> FALSE, minCPUCores |-> 0, minMemoryMB |-> 0, minDiskFreeMB |-> 0,
     maxCPUPercent |-> 0, maxMemoryPercent |-> 0, maxActiveTasks |-> 0]

\* A nil *ScheduleHints.
NoHints == [set |-> FALSE, affinity |-> "", antiAffinity |-> << >>]

\* A ScheduleRequest with Mode, TargetNodeID, RequiredCapabilities and
\* PreferredTags and nothing else set.
Request(mode, target, caps, tags) ==
    [mode |-> mode, target |-> target, caps |-> caps, tags |-> tags,
     skills |-> << >>, features |-> << >>, rr |-> NoRequirements, hints |-> NoHints]

\* What ProfileProvider.ListProfiles may return: an error, or a snapshot.
ProviderOutcomes ==
    { [err |-> TRUE,  profiles |-> << >>],
      [err |-> FALSE, profiles |-> << >>],
      [err |-> FALSE, profiles |-> <<Profile("g1", "online", {"exec"}, 10, 0)>>],
      [err |-> FALSE, profiles |-> <<Profile("g1", "online", {}, 10, 0)>>],
      [err |-> FALSE, profiles |-> <<Profile("g1", "online", {"exec"}, 80, 5),
                                     Profile("g2", "online", {"exec"}, 10, 0)>>],
      [err |-> FALSE, profiles |-> <<Profile("g1", "offline", {"exec"}, 10, 0)>>] }

\* The ScheduleRequests callers submit (Mode, TargetNodeID,
\* RequiredCapabilities, PreferredTags).
Requests ==
    { Request(DirectMode, "g1", <<"exec">>, NoTags),
      Request(DirectMode, "",   << >>, NoTags),
      Request(AIMode,     "",   << >>, NoTags),
      Request("bogus",    "",   << >>, NoTags) }

NoRequest == Request("", "", << >>, NoTags)

\* The orders in which a range loop may visit the keys of a map.
KeyOrders(tags) ==
    IF DOMAIN tags = {}
    THEN {<< >>}
    ELSE {o \in [1..Cardinality(DOMAIN tags) -> DOMAIN tags] :
              \A i, j \in DOMAIN o : i # j => o[i] # o[j]}

\* --------------------------------------------------------------------------
\* selector.go: constraintChecker, DirectSelector, AISelector
\* --------------------------------------------------------------------------

\* A constraint check that looks at the node's status only.
checkStatusOnly(r, p) ==
    IF p.status # "online" THEN "node status is not online" ELSE ""

\* The skillSet of check and scoreSkills: the ID and the Name of every
\* installed skill.
skillSet(p) ==
    {p.skills[k].id : k \in 1..Len(p.skills)} \cup {p.skills[k].name : k \in 1..Len(p.skills)}

\* The featureSet of check.
featureSet(p) == {p.features[k] : k \in 1..Len(p.features)}

\* A constraint check that takes every non-zero resource requirement as set.
checkNonZero(r, p) ==
    IF p.status # "online"
    THEN "node status is not online"
    ELSE IF \E k \in 1..Len(r.caps) : r.caps[k] \notin p.caps
    THEN "missing required capability"
    ELSE IF \E k \in 1..Len(r.skills) : r.skills[k] \notin skillSet(p)
    THEN "missing required skill"
    ELSE IF \E k \in 1..Len(r.features) : r.features[k] \notin featureSet(p)
    THEN "missing required feature"
    ELSE IF ~r.rr.set
    THEN ""
    ELSE IF r.rr.minCPUCores # 0 /\ p.cpuCores < r.rr.minCPUCores
    THEN "insufficient CPU cores"
    ELSE IF r.rr.minMemoryMB # 0 /\ p.memoryMB < r.rr.minMemoryMB
    THEN "insufficient memory"
    ELSE IF r.rr.minDiskFreeMB # 0 /\ p.diskFreeMB < r.rr.minDiskFreeMB
    THEN "insufficient disk"
    ELSE IF r.rr.maxCPUPercent # 0 /\ p.cpuPercent > r.rr.maxCPUPercent
    THEN "CPU usage too high"
    ELSE IF r.rr.maxMemoryPercent # 0 /\ p.memoryPercent > r.rr.maxMemoryPercent
    THEN "memory usage too high"
    ELSE IF r.rr.maxActiveTasks # 0 /\ p.activeTasks > r.rr.maxActiveTasks
    THEN "too many active tasks"
    ELSE ""

\* constraintChecker.check: "" when the node passes, else the first failing
\* reason (the message without the values it formats in).
check(r, p) ==
    IF p.status # "online"
    THEN "node status is not online"
    ELSE IF \E k \in 1..Len(r.caps) : r.caps[k] \notin p.caps
    THEN "missing required capability"
    ELSE IF \E k \in 1..Len(r.skills) : r.skills[k] \notin skillSet(p)
    THEN "missing required skill"
    ELSE IF \E k \in 1..Len(r.features) : r.features[k] \notin featureSet(p)
    THEN "missing required feature"
    ELSE IF ~r.rr.set
    THEN ""
    ELSE IF r.rr.minCPUCores > 0 /\ p.cpuCores < r.rr.minCPUCores
    THEN "insufficient CPU cores"
    ELSE IF r.rr.minMemoryMB > 0 /\ p.memoryMB < r.rr.minMemoryMB
    THEN "insufficient memory"
    ELSE IF r.rr.minDiskFreeMB > 0 /\ p.diskFreeMB < r.rr.minDiskFreeMB
    THEN "insufficient disk"
    ELSE IF r.rr.maxCPUPercent > 0 /\ p.cpuPercent > r.rr.maxCPUPercent
    THEN "CPU usage too high"
    ELSE IF r.rr.maxMemoryPercent > 0 /\ p.memoryPercent > r.rr.maxMemoryPercent
    THEN "memory usage too high"
    ELSE IF r.rr.maxActiveTasks > 0 /\ p.activeTasks > r.rr.maxActiveTasks
    THEN "too many active tasks"
    ELSE ""

\* A selector's (nil, error).
SelectFailed(why) ==
    [ok |-> FALSE, node |-> "", err |-> why, mode |-> "", scores |-> << >>,
     candidateCount |-> 0, eligibleCount |-> 0]

\* DirectSelector.Select
DirectSelect(r, cands) ==
    IF r.target = ""
    THEN SelectFailed("DirectSelector requires a non-empty TargetNodeID")
    ELSE IF ~\E k \in 1..Len(cands) : cands[k].id = r.target
    THEN SelectFailed("target node not found")
    ELSE LET k == CHOOSE k \in 1..Len(cands) :
                    cands[k].id = r.target /\ \A m \in 1..(k - 1) : cands[m].id # r.target
             reason == check(r, cands[k])
         IN  IF reason # ""
             THEN SelectFailed(reason)
             ELSE [ok |-> TRUE, node |-> cands[k].id, err |-> "", mode |-> DirectMode,
                   scores |-> << >>, candidateCount |-> Len(cands), eligibleCount |-> 1]

clamp(v, lo, hi) == IF v < lo THEN lo ELSE IF v > hi THEN hi ELSE v

\* AISelector.scoreCapabilities, in thousandths
scoreCapabilities(r, p) ==
    IF Len(r.caps) = 0 THEN 1000
    ELSE (Cardinality({k \in 1..Len(r.caps) : r.caps[k] \in p.caps}) * 1000) \div Len(r.caps)

\* AISelector.scoreResources, in thousandths
scoreResources(p) ==
    ( (1000 - clamp(p.cpuPercent * 10, 0, 1000))
    + (1000 - clamp(p.memoryPercent * 10, 0, 1000))
    + clamp((p.diskFreeMB * 1000) \div 10240, 0, 1000) ) \div 3

\* math.Exp(-0.3 * n) in thousandths, n = 1..6
ExpDecay == <<741, 549, 407, 301, 223, 165>>

\* AISelector.scoreLoad, in thousandths
scoreLoad(p) ==
    LET total == p.activeTasks + p.queuedTasks
    IN  IF total = 0 THEN 1000
        ELSE IF total <= Len(ExpDecay) THEN ExpDecay[total]
        ELSE 0

\* profile.Tags[k]: the zero value for a missing key.
TagOf(p, k) == IF k \in DOMAIN p.tags THEN p.tags[k] ELSE ""

\* A tag loop that stops counting at the first preferred tag that does not match.
RECURSIVE matchedUntilMiss(_, _, _, _)
matchedUntilMiss(r, p, order, i) ==
    IF i > Len(order) \/ TagOf(p, order[i]) # r.tags[order[i]]
    THEN 0
    ELSE 1 + matchedUntilMiss(r, p, order, i + 1)

\* AISelector.scoreTags: the loop over req.PreferredTags, visiting the keys in
\* the given order from the i-th on, counts the matches.
RECURSIVE matchedTags(_, _, _, _)
matchedTags(r, p, order, i) ==
    IF i > Len(order)
    THEN 0
    ELSE (IF TagOf(p, order[i]) = r.tags[order[i]] THEN 1 ELSE 0)
         + matchedTags(r, p, order, i + 1)

\* AISelector.scoreTags, in thousandths
scoreTags(r, p, order) ==
    IF Len(order) = 0 THEN 1000
    ELSE (matchedTags(r, p, order, 1) * 1000) \div Len(order)

\* AISelector.scoreSkills, in thousandths
scoreSkills(r, p) ==
    IF Len(r.skills) = 0 THEN 1000
    ELSE (Cardinality({k \in 1..Len(r.skills) : r.skills[k] \in skillSet(p)}) * 1000)
             \div Len(r.skills)

\* A scoreAffinity that looks at the Affinity hint before the AntiAffinity list.
scoreAffinityFirst(r, p) ==
    IF ~r.hints.set THEN 500
    ELSE IF r.hints.affinity # "" /\ r.hints.affinity = p.id THEN 1000
    ELSE IF \E k \in 1..Len(r.hints.antiAffinity) : r.hints.antiAffinity[k] = p.id THEN 0
    ELSE 500

\* AISelector.scoreAffinity, in thousandths
scoreAffinity(r, p) ==
    IF ~r.hints.set THEN 500
    ELSE IF \E k \in 1..Len(r.hints.antiAffinity) : r.hints.antiAffinity[k] = p.id THEN 0
    ELSE IF r.hints.affinity # "" /\ r.hints.affinity = p.id THEN 1000
    ELSE 500

\* DefaultScoringWeights(), in hundredths
DefaultScoringWeights ==
    [capability |-> 25, skill |-> 20, resource |-> 20, load |-> 20, tag |-> 10,
     affinity |-> 5]

\* AISelector.score of a selector whose weights are w: the NodeScore of a
\* candidate, the total in hundred-thousandths.
scoreBy(w, r, p, order) ==
    LET capability == scoreCapabilities(r, p)
        skill      == scoreSkills(r, p)
        resource   == scoreResources(p)
        load       == scoreLoad(p)
        tag        == scoreTags(r, p, order)
        affinity   == scoreAffinity(r, p)
    IN  [nodeID |-> p.id,
         capability |-> capability, skill |-> skill, resource |-> resource,
         load |-> load, tag |-> tag, affinity |-> affinity,
         total |-> capability * w.capability + skill * w.skill + resource * w.resource
                   + load * w.load + tag * w.tag + affinity * w.affinity,
         eligible |-> FALSE, rejectReason |-> ""]

\* AISelector.score of NewDefaultAISelector()
score(r, p, order) == scoreBy(DefaultScoringWeights, r, p, order)

\* AISelector.score(...).TotalScore
TotalScore(r, p, order) == score(r, p, order).total

\* AISelector.Select, the loop body: the score with the constraint check's verdict.
scoredBy(w, r, p, order) ==
    LET reason == check(r, p)
    IN  [scoreBy(w, r, p, order) EXCEPT !.eligible = (reason = ""), !.rejectReason = reason]

\* The loop body of NewDefaultAISelector()'s Select.
scored(r, p, order) == scoredBy(DefaultScoringWeights, r, p, order)

\* sort.Slice sorts slices of up to insertionMax elements by insertion.
insertionMax == 12

\* The inner loop of the insertion sort: data[j] moves left while it is less
\* than its left neighbour, less(i, j) being TotalScore[i] > TotalScore[j].
RECURSIVE siftLeft(_, _)
siftLeft(s, j) ==
    IF j > 1 /\ s[j].total > s[j - 1].total
    THEN siftLeft([s EXCEPT ![j] = s[j - 1], ![j - 1] = s[j]], j - 1)
    ELSE s

RECURSIVE insertionSort(_, _)
insertionSort(s, i) ==
    IF i > Len(s) THEN s ELSE insertionSort(siftLeft(s, i), i + 1)

Reverse(s) == [i \in 1..Len(s) |-> s[Len(s) + 1 - i]]

\* sort.Slice(eligible, TotalScore descending). Up to insertionMax elements it
\* is an insertion sort, which keeps equal elements in order. Beyond, it is not
\* stable and the order of equal elements is the build's: ties says whether
\* this build keeps them in order or, as the pattern-defeating quicksort does
\* when its pivot is the last of the tied elements, leaves them reversed.
sortSlice(s, ties) ==
    IF Len(s) <= insertionMax \/ ties = "kept"
    THEN insertionSort(s, 2)
    ELSE insertionSort(Reverse(s), 2)

\* AISelector.Select of a selector whose weights are w
AISelectBy(w, r, cands, order, ties) ==
    LET scores == [k \in 1..Len(cands) |-> scoredBy(w, r, cands[k], order)]
        eligible == SelectSeq(scores, LAMBDA ns : ns.eligible)
    IN  IF Len(cands) = 0
        THEN SelectFailed("AISelector received 0 candidates")
        ELSE IF Len(eligible) = 0
        THEN SelectFailed("no eligible Golem nodes")
        ELSE LET best == sortSlice(eligible, ties)[1]
             IN  [ok |-> TRUE, node |-> best.nodeID, err |-> "", mode |-> AIMode,
                  scores |-> scores, candidateCount |-> Len(cands),
                  eligibleCount |-> Len(eligible)]

\* NewDefaultAISelector().Select
AISelect(r, cands, order, ties) ==
    AISelectBy(DefaultScoringWeights, r, cands, order, ties)

\* A nil error.
NilError == ""

\* fmt.Errorf("scheduler: all %d selectors failed, last error: %w", n, lastErr):
\* the count and the wrapped error.
AllFailed(n, lastErr) == [failed |-> n, wrapped |-> lastErr]

\* sel.Select(ctx, req, candidates) of an inner selector: a DirectSelector or
\* a default AISelector.
InnerSelect(sel, r, cands, ties) ==
    IF sel = "direct"
    THEN DirectSelect(r, cands)
    ELSE AISelect(r, cands, CHOOSE o \in KeyOrders(r.tags) : TRUE, ties)

\* A composite loop that remembers the first error instead of the last.
RECURSIVE CompositeFromFirstError(_, _, _, _, _, _, _)
CompositeFromFirstError(sels, i, r, cands, ties, lastErr, calls) ==
    IF i > Len(sels)
    THEN [decision |-> SelectFailed(AllFailed(Len(sels), lastErr)), calls |-> calls]
    ELSE LET d == InnerSelect(sels[i], r, cands, ties)
         IN  IF d.ok
             THEN [decision |-> d, calls |-> Append(calls, sels[i])]
             ELSE CompositeFromFirstError(sels, i + 1, r, cands, ties,
                                          IF lastErr = NilError THEN d.err ELSE lastErr,
                                          Append(calls, sels[i]))

\* CompositeSelector.Select, the loop from the i-th selector on; calls lists
\* the selectors whose Select has been called.
RECURSIVE CompositeFrom(_, _, _, _, _, _, _)
CompositeFrom(sels, i, r, cands, ties, lastErr, calls) ==
    IF i > Len(sels)
    THEN [decision |-> SelectFailed(AllFailed(Len(sels), lastErr)), calls |-> calls]
    ELSE LET d == InnerSelect(sels[i], r, cands, ties)
         IN  IF d.ok
             THEN [decision |-> d, calls |-> Append(calls, sels[i])]
             ELSE CompositeFrom(sels, i + 1, r, cands, ties, d.err, Append(calls, sels[i]))

\* CompositeSelector.Select
CompositeSelect(sels, r, cands, ties) ==
    CompositeFrom(sels, 1, r, cands, ties, NilError, << >>)

\* The weights of the AI selector that New() gives a scheduler whose
\* configuration is c: aiSel := NewDefaultAISelector().
aiSel(c) == DefaultScoringWeights

\* defaultScheduler.tryDispatch up to the selection: ListProfiles, the mode
\* switch and selector.Select.
TryDispatchSelect(r, out) ==
    IF out.err
    THEN SelectFailed("failed to list Golem profiles")
    ELSE IF Len(out.profiles) = 0
    THEN SelectFailed("no Golem nodes available")
    ELSE IF r.mode = DirectMode
    THEN DirectSelect(r, out.profiles)
    ELSE IF r.mode = AIMode
    THEN AISelectBy(aiSel(config), r, out.profiles,
                    CHOOSE o \in KeyOrders(r.tags) : TRUE, selection.ties)
    ELSE SelectFailed("unknown schedule mode")

\* --------------------------------------------------------------------------
\* monitor.go: taskMonitor
\* --------------------------------------------------------------------------

\* A watchedTask. startedAt and lastHeartbeat are kept as the time elapsed since
\* them (now - startedAt, now - lastHeartbeat), which is all checkTasks reads;
\* an elapsed time stops growing once it is past its threshold.
NotWatched == [on |-> FALSE, sinceStart |-> 0, sinceHeartbeat |-> 0, timeout |-> 0]

\* taskMonitor.Watch
Watch(w, t, tmo) ==
    [w EXCEPT ![t] = [on |-> TRUE, sinceStart |-> 0, sinceHeartbeat |-> 0,
                      timeout |-> IF tmo = 0 THEN DefaultTimeout ELSE tmo]]

\* taskMonitor.Unwatch
Unwatch(w, t) == [w EXCEPT ![t] = NotWatched]

\* A RecordHeartbeat that finds the task and leaves its lastHeartbeat alone.
RecordHeartbeatKept(w, t) == w

\* taskMonitor.RecordHeartbeat
RecordHeartbeat(w, t) ==
    IF w[t].on THEN [w EXCEPT ![t].sinceHeartbeat = 0] ELSE w

\* taskMonitor.checkTasks: now.Sub(wt.startedAt) > wt.timeout
IsTimedOut(wt) == wt.sinceStart > wt.timeout

\* taskMonitor.checkTasks: now.Sub(wt.lastHeartbeat) > m.config.StallThreshold
IsStalled(wt) == wt.sinceHeartbeat > StallThreshold

\* The clock advances by one unit: every elapsed time grows.
Elapse(w) ==
    [t \in DOMAIN w |->
        IF w[t].on
        THEN [w[t] EXCEPT !.sinceStart = IF @ > w[t].timeout THEN @ ELSE @ + 1,
                          !.sinceHeartbeat = IF @ > StallThreshold THEN @ ELSE @ + 1]
        ELSE w[t]]

\* --------------------------------------------------------------------------
\* monitor.go: StatsCollector
\* --------------------------------------------------------------------------

\* StatsCollector.RecordSubmission
RecordSubmission(st) == [st EXCEPT !.submitted = @ + 1]

\* A new NodeSchedulerStats.
NoNodeStats == [assigned |-> 0, completed |-> 0, failed |-> 0]

\* StatsCollector.getOrCreateNodeStats: the NodeStats map with an entry for the node.
getOrCreateNodeStats(ns, node) ==
    IF node \in DOMAIN ns THEN ns ELSE ns @@ (node :> NoNodeStats)

\* StatsCollector.RecordAssignment
RecordAssignment(st, t, node) ==
    [st EXCEPT !.running = @ \cup {t},
               !.nodes = [getOrCreateNodeStats(@, node) EXCEPT ![node].assigned = @ + 1]]

\* StatsCollector.RecordCompletion: the node's counter moves only for a task
\* that is in the running map.
RecordCompletion(st, t, node) ==
    [st EXCEPT !.completed = @ + 1, !.running = @ \ {t},
               !.nodes = IF t \in st.running /\ node # ""
                         THEN [getOrCreateNodeStats(@, node) EXCEPT ![node].completed = @ + 1]
                         ELSE @]

\* StatsCollector.RecordFailure
RecordFailure(st, t, node) ==
    [st EXCEPT !.failed = @ + 1, !.running = @ \ {t},
               !.nodes = IF node # ""
                         THEN [getOrCreateNodeStats(@, node) EXCEPT ![node].failed = @ + 1]
                         ELSE @]

\* StatsCollector.RecordCancellation
RecordCancellation(st, t) == [st EXCEPT !.cancelled = @ + 1, !.running = @ \ {t}]

\* StatsCollector.RecordTimeout
RecordTimeout(st, t) == [st EXCEPT !.timedOut = @ + 1, !.running = @ \ {t}]

\* The collector's NodeStats map and what Snapshot returns, as objects in
\* memory: maps[a] is the map[string]*NodeSchedulerStats at address a (node ID
\* to the address of a cell), cells[a] the NodeSchedulerStats at address a,
\* taken the SchedulerStats values returned so far, expected what the holder
\* of each has read from or written to it, ops the calls made.
CollectorMap == 1

NoSnaps ==
    [maps |-> << << >> >>, cells |-> << >>, taken |-> << >>, expected |-> << >>, ops |-> 0]

\* getOrCreateNodeStats on the collector's map, in memory.
ensureNode(m, node) ==
    IF node \in DOMAIN m.maps[CollectorMap]
    THEN m
    ELSE [m EXCEPT !.cells = Append(@, NoNodeStats),
                   !.maps[CollectorMap] = @ @@ (node :> (Len(m.cells) + 1))]

\* ns := c.getOrCreateNodeStats(nodeID); ns.<field>++
bumpNode(m, node, field) ==
    LET m1 == ensureNode(m, node)
    IN  [m1 EXCEPT !.cells[m1.maps[CollectorMap][node]][field] = @ + 1]

\* The nodes of a NodeStats map in a fixed order.
nodesOf(mp) == SelectSeq(<<"g1", "g2">>, LAMBDA n : n \in DOMAIN mp)

\* The scalar fields of a SchedulerStats that Snapshot returns.
snapValue(st, queueLen, mapAddr) ==
    [submitted |-> st.submitted, completed |-> st.completed, failed |-> st.failed,
     cancelled |-> st.cancelled, timedOut |-> st.timedOut,
     currentQueued |-> queueLen, currentRunning |-> Cardinality(st.running),
     nodeStats |-> mapAddr]

\* A Snapshot that stops after `snap := c.stats`: the copy shares the
\* collector's NodeStats map.
SnapshotShallow(m, st, queueLen) ==
    [m EXCEPT !.taken = Append(@, snapValue(st, queueLen, CollectorMap))]

\* StatsCollector.Snapshot: the struct copy, the two current figures, and a
\* new map with a copy of every NodeSchedulerStats.
Snapshot(m, st, queueLen) ==
    LET src == m.maps[CollectorMap]
        ns == nodesOf(src)
        base == Len(m.cells)
        copies == [i \in 1..Len(ns) |-> m.cells[src[ns[i]]]]
        newMap == [n \in DOMAIN src |->
                      base + (CHOOSE i \in 1..Len(ns) : ns[i] = n)]
    IN  [m EXCEPT !.cells = @ \o copies,
                  !.maps = Append(@, newMap),
                  !.taken = Append(@, snapValue(st, queueLen, Len(m.maps) + 1))]

\* What a NodeStats map at an address reads as: node ID to NodeSchedulerStats.
ViewOf(m, mapAddr) == [n \in DOMAIN m.maps[mapAddr] |-> m.cells[m.maps[mapAddr][n]]]

\* --------------------------------------------------------------------------
\* The scheduler facade: helpers
\* --------------------------------------------------------------------------

NoRecord == [present |-> FALSE, decision |-> "", retries |-> 0]

Terminal == {"Completed", "Failed", "Cancelled", "TimedOut"}

\* A TaskEvent: Type, Task (the task's ID, "" for a nil Task) and NodeID.
Event(type, tk, node) == [type |-> type, task |-> tk, node |-> node]

\* defaultScheduler.emitEvent: the listener receives the event.
emitEvent(ev, t, e) == [ev EXCEPT ![t] = Append(@, e)]

\* defaultScheduler.getTask: the task of the record, nil ("") when there is none.
getTask(tb, t) == IF tb[t].present THEN t ELSE ""

\* An assignment that sets Status and StartedAt but not AssignedNodeID.
AssignTaskNoNode(tk, t, node) ==
    [tk EXCEPT ![t].status = "Assigned", ![t].startedAt = TRUE]

\* defaultScheduler.Status: the task of the record, or a not-found error.
Status(tb, t) ==
    IF tb[t].present
    THEN [err |-> FALSE, task |-> t]
    ELSE [err |-> TRUE, task |-> ""]

\* tryDispatch: req.Task.AssignedNodeID, Status and StartedAt are set.
AssignTask(tk, t, node) ==
    [tk EXCEPT ![t].assignedNodeID = node, ![t].status = "Assigned", ![t].startedAt = TRUE]

\* tryDispatch: s.tasks[req.Task.ID] = &taskRecord{task, decision, request}
PutRecord(tb, t, node) ==
    [tb EXCEPT ![t] = [present |-> TRUE, decision |-> node, retries |-> 0]]

\* Cancel, OnTaskTimeout: rec.task.Status is set when the record exists.
SetStatus(tk, tb, t, status) ==
    IF tb[t].present THEN [tk EXCEPT ![t].status = status] ELSE tk

\* ReportResult: CompletedAt and Status are set when the record exists.
SetResult(tk, tb, t, success) ==
    IF tb[t].present
    THEN [tk EXCEPT ![t].completedAt = TRUE,
                    ![t].status = IF success THEN "Completed" ELSE "Failed"]
    ELSE tk

\* --------------------------------------------------------------------------
\* The scheduler: state and operations
\* --------------------------------------------------------------------------

vars == <<heap, seq, dequeued, priority, timeout, task, req, tasks, watched,
          stats, events, dispatchCalls, sched, loop, budget, selection, stop, config, run, subs, snaps>>

svars == <<timeout, task, req, tasks, watched, stats, events, dispatchCalls,
           sched, loop, budget, selection, stop, config, run, subs, snaps>>

\* No selector has been called directly; ties is the build's order of equal
\* elements in a long sort.Slice.
NoSelection(ties) ==
    [ties |-> ties, kind |-> "none", req |-> NoRequest, cands |-> << >>,
     order |-> << >>, decision |-> SelectFailed("")]

NewTask == [status |-> "Pending", assignedNodeID |-> "", startedAt |-> FALSE,
            completedAt |-> FALSE]

NotCalled == [pc |-> "idle", node |-> "", decision |-> "", err |-> FALSE]

LoopIdle == [pc |-> "idle", task |-> "", node |-> ""]

\* --------------------------------------------------------------------------
\* Locking: s.mu (tasks and listeners) and m.mu (the watched set)
\* --------------------------------------------------------------------------
\* Each operation is the sequence of its lock operations and of the calls it
\* makes into listeners and handlers, in program order.  The queue and the
\* statistics collector have mutexes of their own, taken and released inside
\* one method that calls nothing else; they are left out.

MaxReentry == 1     \* listener calls nested inside one another

\* A goroutine that calls into the scheduler (the application, the transport
\* layer or scheduleLoop) and the monitor's pollLoop.
Goroutines == {"caller", "poll"}

Mutexes == {"mu", "mon"}

I(k, x) == [k |-> k, x |-> x]

\* mu.Lock() ... mu.Unlock() around a section that calls nothing
W(m) == <<I("Lock", m), I("Unlock", m)>>

\* mu.RLock() ... mu.RUnlock() around a section that calls nothing
R(m) == <<I("RLock", m), I("RUnlock", m)>>

\* emitEvent iterating over s.listeners inside the read lock
emitEventUnderLock(type) ==
    <<I("RLock", "mu"), I("OnEvent", type), I("RUnlock", "mu")>>

\* emitEvent: copy the listeners under the read lock, release, then call them
emitEventLocking(type) == R("mu") \o <<I("OnEvent", type)>>

\* getTask: read lock around the map lookup
getTaskLocking == R("mu")

\* tryDispatch up to the failed Dispatch call: the record is stored under mu
tryDispatchFailed == W("mu")

\* tryDispatch, all of it: record under mu, Dispatch, Watch, Assigned event
tryDispatchAssigned == W("mu") \o W("mon") \o emitEventLocking("Assigned")

\* The operations the application and the transport layer call
APIOps ==
    {"Schedule.nil", "Schedule.assigned", "Schedule.noNode", "Schedule.dispatchErr",
     "Cancel.queued", "Cancel.running", "ReportProgress",
     "ReportResult.ok", "ReportResult.failed",
     "Subscribe", "Unsubscribe", "Status"}

\* What a listener does inside OnEvent
ListenerOps ==
    {"return", "Subscribe", "Unsubscribe", "Status", "Cancel.queued", "Cancel.running"}

\* The MonitorEventHandler methods of the scheduler, by outcome
HandlerOps(name) ==
    IF name = "OnTaskTimeout" THEN {"OnTaskTimeout"}
    ELSE {"OnTaskStalled.unknown", "OnTaskStalled.retry", "OnTaskStalled.failed"}

LoopOps == {"processQueue.empty", "processQueue.dispatched",
            "processQueue.noNode", "processQueue.dispatchErr"}

PollOps == {"checkTasks.none", "checkTasks.timeout", "checkTasks.stalled"}

TopOps(g) == IF g = "caller" THEN APIOps \cup LoopOps ELSE PollOps

Body(op) ==
    CASE op = "Schedule.nil"            -> << >>
      [] op = "Schedule.assigned"       -> tryDispatchAssigned
      [] op = "Schedule.noNode"         -> emitEventLocking("Submitted")
      [] op = "Schedule.dispatchErr"    -> tryDispatchFailed \o emitEventLocking("Submitted")
      [] op = "Cancel.queued"           ->
            W("mu") \o getTaskLocking \o emitEventLocking("Cancelled")
      [] op = "Cancel.running"          ->
            W("mon") \o W("mu") \o getTaskLocking \o emitEventLocking("Cancelled")
      [] op = "ReportProgress"          ->
            W("mon") \o getTaskLocking \o emitEventLocking("Progress")
      [] op = "ReportResult.ok"         ->
            W("mon") \o W("mu") \o getTaskLocking \o emitEventLocking("Completed")
      [] op = "ReportResult.failed"     ->
            W("mon") \o W("mu") \o getTaskLocking \o emitEventLocking("Failed")
      [] op = "Subscribe"               -> W("mu")
      [] op = "Unsubscribe"             -> W("mu")
      [] op = "Status"                  -> R("mu")
      [] op = "return"                  -> << >>
      [] op = "OnTaskTimeout"           ->
            W("mu") \o getTaskLocking \o emitEventLocking("TimedOut")
      [] op = "OnTaskStalled.unknown"   -> W("mu")
      [] op = "OnTaskStalled.retry"     -> W("mu") \o emitEventLocking("Rescheduled")
      [] op = "OnTaskStalled.failed"    ->
            W("mu") \o getTaskLocking \o emitEventLocking("Failed")
      [] op = "processQueue.empty"      -> << >>
      [] op = "processQueue.dispatched" -> tryDispatchAssigned
      [] op = "processQueue.noNode"     -> << >>
      [] op = "processQueue.dispatchErr" -> tryDispatchFailed
      [] op = "checkTasks.none"         -> R("mon")
      [] op = "checkTasks.timeout"      ->
            R("mon") \o <<I("handler", "OnTaskTimeout")>> \o W("mon")
      [] op = "checkTasks.stalled"      ->
            R("mon") \o <<I("handler", "OnTaskStalled")>>

Frame(op, by) == [op |-> op, by |-> by, pc |-> 1]

NotHeld == [m \in Mutexes |-> [r |-> 0, w |-> FALSE]]

NoRun == [stack |-> [g \in Goroutines |-> << >>],
          held  |-> [g \in Goroutines |-> NotHeld]]

\* Return from every frame that has run to its end.
RECURSIVE Settle(_)
Settle(st) ==
    IF st = << >> THEN st
    ELSE IF st[Len(st)].pc > Len(Body(st[Len(st)].op))
    THEN Settle(SubSeq(st, 1, Len(st) - 1))
    ELSE st

\* The instruction goroutine g executes next
Instr(g) ==
    LET st == run.stack[g]
    IN  Body(st[Len(st)].op)[st[Len(st)].pc]

Running(g) == run.stack[g] # << >>

\* The stack with the top frame moved past its current instruction
Advanced(g) ==
    LET st == run.stack[g]
    IN  [st EXCEPT ![Len(st)].pc = @ + 1]

\* sync.RWMutex: Lock waits for every holder, RLock for the writer; neither
\* is reentrant.
CanLock(m) == \A h \in Goroutines : ~run.held[h][m].w /\ run.held[h][m].r = 0

CanRLock(m) == \A h \in Goroutines : ~run.held[h][m].w

Reentries(g) ==
    Cardinality({i \in 1..Len(run.stack[g]) : run.stack[g][i].by = "listener"})

\* --------------------------------------------------------------------------
\* Listeners: Subscribe, Unsubscribe and emitEvent
\* --------------------------------------------------------------------------

MaxEmits == 2       \* emitEvent calls in a behaviour

\* TaskEventListener values: l1 and l2 are pointers to listener objects, f1 is
\* a TaskEventListenerFunc.
Listeners == {"l1", "l2", "f1"}

ListenerFuncs == {"f1"}

\* len(s.listeners) stays within the number of listener values.
MaxListeners == Cardinality(Listeners)

\* The goroutine that emits events
Emitters == {"e1"}

NotEmitting == [ev |-> 0, snap |-> << >>, pos |-> 0]

NoSubs == [listeners |-> << >>,
           emitting  |-> [e \in Emitters |-> NotEmitting],
           began     |-> << >>,
           delivered |-> << >>]

\* l == listener on two interface values: with the same uncomparable dynamic
\* type (a func) the comparison panics at run time.
ComparePanics(a, b) == a \in ListenerFuncs /\ b \in ListenerFuncs

\* Removal that moves the last element into the hole
removeAtSwap(ls, i) ==
    SubSeq([ls EXCEPT ![i] = ls[Len(ls)]], 1, Len(ls) - 1)

\* append(s.listeners[:i], s.listeners[i+1:]...)
removeAt(ls, i) == SubSeq(ls, 1, i - 1) \o SubSeq(ls, i + 1, Len(ls))

\* Unsubscribe's loop: the first index where the comparison is true or panics
\* (0: the loop ends without either).
FirstMatch(ls, l) ==
    LET hits == {i \in 1..Len(ls) : ls[i] = l \/ ComparePanics(ls[i], l)}
    IN  IF hits = {} THEN 0 ELSE CHOOSE i \in hits : \A j \in hits : i <= j

\* DefaultSchedulerConfig() with non-nil collaborators, not completed yet;
\* durations in milliseconds.
DefaultSchedulerConfig ==
    [dispatchConcurrency |-> 8, scheduleLoopInterval |-> 500,
     pollInterval |-> 10000, stallThreshold |-> 60000, defaultTimeout |-> 300000,
     scoringWeights |-> DefaultScoringWeights,
     provider |-> TRUE, dispatcher |-> TRUE, completed |-> << >>]

\* SchedulerConfig.Complete(provider, dispatcher): (nil, error), or the sealed
\* configuration with DispatchConcurrency and ScheduleLoopInterval defaulted.
Complete(c) ==
    IF ~c.provider
    THEN [err |-> "ProfileProvider must not be nil"]
    ELSE IF ~c.dispatcher
    THEN [err |-> "TaskDispatcher must not be nil"]
    ELSE [err |-> "",
          dispatchConcurrency |-> IF c.dispatchConcurrency <= 0 THEN 8
                                  ELSE c.dispatchConcurrency,
          scheduleLoopInterval |-> IF c.scheduleLoopInterval <= 0 THEN 500
                                   ELSE c.scheduleLoopInterval,
          pollInterval |-> c.pollInterval,
          stallThreshold |-> c.stallThreshold,
          defaultTimeout |-> c.defaultTimeout,
          scoringWeights |-> c.scoringWeights]

\* stopCh is open and both background loops run.
NotStopped == [closed |-> FALSE, loopExited |-> FALSE, pollExited |-> FALSE]

\* New(): the scheduler of a completed configuration, before Start.
NewScheduler ==
    /\ run = NoRun
    /\ subs = NoSubs
    /\ snaps = NoSnaps
    /\ timeout = [t \in Tasks |-> IF t = "t1" THEN 0 ELSE 1]
    /\ task = [t \in Tasks |-> NewTask]
    /\ req = [t \in Tasks |-> NoRequest]
    /\ tasks = [t \in Tasks |-> NoRecord]
    /\ watched = [t \in Tasks |-> NotWatched]
    /\ stats = [submitted |-> 0, completed |-> 0, failed |-> 0, cancelled |-> 0,
                timedOut |-> 0, running |-> {}, nodes |-> << >>]
    /\ events = [t \in Tasks |-> << >>]
    /\ dispatchCalls = [t \in Tasks |-> << >>]
    /\ sched = [t \in Tasks |-> NotCalled]
    /\ loop = LoopIdle
    /\ stop = NotStopped

SchedInit ==
    /\ config = DefaultSchedulerConfig
    /\ NewScheduler

Init ==
    /\ heap = << >>
    /\ seq = 0
    /\ dequeued = << >>
    /\ priority = [t \in Tasks |-> IF t = "t1" THEN 1 ELSE MaxPriority]
    /\ budget = MaxEvents
    /\ selection = NoSelection("kept")
    /\ SchedInit

RECURSIVE TotalLen(_, _)
TotalLen(f, S) ==
    IF S = {} THEN 0
    ELSE LET x == CHOOSE x \in S : TRUE IN Len(f[x]) + TotalLen(f, S \ {x})

\* The model stops emitting once the budget of events is used up.
CanEmit == TotalLen(events, Tasks) < budget

\* Workers report on tasks that were dispatched to them.
Dispatched(t) == Len(dispatchCalls[t]) > 0

\* Schedule with req.Task == nil: the error is returned before anything is touched.
ScheduleNilTask == UNCHANGED vars

\* The dispatcher's call to t in flight returns: its outcome is on record.
DispatchReturned(d, t, ok) ==
    [d EXCEPT ![t][Len(d[t])].result = IF ok THEN "ok" ELSE "err"]

\* A failure path that reports the request as queued without enqueueing it.
ScheduleDropped(t) ==
    /\ CanEmit
    /\ UNCHANGED <<heap, seq>>
    /\ events' = emitEvent(events, t, Event("Submitted", t, ""))
    /\ sched' = [sched EXCEPT ![t] = [pc |-> "returned", node |-> "", decision |-> "", err |-> TRUE]]

\* Schedule's failure path: Enqueue, emit Submitted, return (nil, error).
ScheduleQueued(t) ==
    /\ CanEmit
    /\ LET q == QEnqueue(heap, seq, t, priority[t])
       IN  /\ heap' = q.h
           /\ seq' = q.seq
    /\ events' = emitEvent(events, t, Event("Submitted", t, ""))
    /\ sched' = [sched EXCEPT ![t] = [pc |-> "returned", node |-> "", decision |-> "", err |-> TRUE]]

\* tryDispatch after a successful Select: the task is assigned, the record is
\* stored and Dispatch is called.
DispatchBegin(t, node) ==
    /\ Len(dispatchCalls[t]) < MaxDispatch
    /\ task' = AssignTask(task, t, node)
    /\ tasks' = PutRecord(tasks, t, node)
    /\ dispatchCalls' = [dispatchCalls EXCEPT ![t] = Append(@, [node |-> node, result |-> "pending"])]

\* A successful dispatch that is recorded and watched but emits nothing.
DispatchDoneSilent(t, node) ==
    /\ CanEmit
    /\ stats' = RecordAssignment(stats, t, node)
    /\ watched' = Watch(watched, t, timeout[t])
    /\ UNCHANGED events

\* tryDispatch after Dispatch returned nil: RecordAssignment, Watch, emit Assigned.
DispatchDone(t, node) ==
    /\ CanEmit
    /\ stats' = RecordAssignment(stats, t, node)
    /\ watched' = Watch(watched, t, timeout[t])
    /\ events' = emitEvent(events, t, Event("Assigned", t, node))

\* Schedule(req) up to the Dispatch call (or to its return, when tryDispatch
\* fails before Dispatch).
ScheduleCall(t, r, out) ==
    /\ sched[t].pc = "idle"
    /\ req' = [req EXCEPT ![t] = r]
    /\ LET sel == TryDispatchSelect(r, out)
       IN  IF sel.ok
           THEN /\ DispatchBegin(t, sel.node)
                /\ stats' = RecordSubmission(stats)
                /\ sched' = [sched EXCEPT ![t] = [pc |-> "dispatching", node |-> sel.node,
                                                  decision |-> "", err |-> FALSE]]
                /\ UNCHANGED <<heap, seq, events>>
           ELSE /\ ScheduleQueued(t)
                /\ stats' = RecordSubmission(stats)
                /\ UNCHANGED <<task, tasks, dispatchCalls>>
    /\ UNCHANGED <<dequeued, priority, timeout, watched, loop, budget, selection, stop, config, run, subs, snaps>>

\* Schedule(req): Dispatch returns (ok: nil, otherwise an error).
ScheduleDispatchReturn(t, ok) ==
    /\ sched[t].pc = "dispatching"
    /\ IF ok
       THEN /\ DispatchDone(t, sched[t].node)
            /\ sched' = [sched EXCEPT ![t] = [pc |-> "returned", node |-> "",
                                              decision |-> sched[t].node, err |-> FALSE]]
            /\ UNCHANGED <<heap, seq>>
       ELSE /\ ScheduleQueued(t)
            /\ UNCHANGED <<stats, watched>>
    /\ dispatchCalls' = DispatchReturned(dispatchCalls, t, ok)
    /\ UNCHANGED <<dequeued, priority, timeout, task, req, tasks, loop, budget, selection, stop, config, run, subs, snaps>>

\* Cancel(taskID)
Cancel(t) ==
    /\ CanEmit
    /\ LET rm == QRemove(heap, t)
       IN  /\ heap' = rm.h
           /\ watched' = IF rm.ok THEN watched ELSE Unwatch(watched, t)
    /\ stats' = RecordCancellation(stats, t)
    /\ task' = SetStatus(task, tasks, t, "Cancelled")
    /\ events' = emitEvent(events, t, Event("Cancelled", getTask(tasks, t), ""))
    /\ UNCHANGED <<seq, dequeued, priority, timeout, req, tasks, dispatchCalls, sched, loop, budget, selection, stop, config, run, subs, snaps>>

\* ReportProgress(progress)
ReportProgress(t) ==
    /\ Dispatched(t)
    /\ CanEmit
    /\ watched' = RecordHeartbeat(watched, t)
    /\ events' = emitEvent(events, t, Event("Progress", getTask(tasks, t), ""))
    /\ UNCHANGED <<heap, seq, dequeued, priority, timeout, task, req, tasks, stats,
                   dispatchCalls, sched, loop, budget, selection, stop, config, run, subs, snaps>>

\* ReportResult(result)
ReportResult(t, success) ==
    /\ Dispatched(t)
    /\ CanEmit
    /\ watched' = Unwatch(watched, t)
    /\ task' = SetResult(task, tasks, t, success)
    /\ LET nodeID == IF tasks[t].present THEN tasks[t].decision ELSE ""
       IN  IF success
           THEN /\ stats' = RecordCompletion(stats, t, nodeID)
                /\ events' = emitEvent(events, t, Event("Completed", getTask(tasks, t), nodeID))
           ELSE /\ stats' = RecordFailure(stats, t, nodeID)
                /\ events' = emitEvent(events, t, Event("Failed", getTask(tasks, t), nodeID))
    /\ UNCHANGED <<heap, seq, dequeued, priority, timeout, req, tasks, dispatchCalls,
                   sched, loop, budget, selection, stop, config, run, subs, snaps>>

\* OnTaskTimeout(taskID), followed by checkTasks' Unwatch
OnTaskTimeout(t) ==
    /\ stats' = RecordTimeout(stats, t)
    /\ task' = SetStatus(task, tasks, t, "TimedOut")
    /\ events' = emitEvent(events, t, Event("TimedOut", getTask(tasks, t), ""))
    /\ watched' = Unwatch(watched, t)
    /\ UNCHANGED <<heap, seq, tasks>>

\* An OnTaskStalled whose reschedule branch also drops the watched entry.
OnTaskStalledUnwatch(t) ==
    IF ~tasks[t].present
    THEN UNCHANGED <<heap, seq, tasks, stats, events, task, watched>>
    ELSE IF tasks[t].retries < MaxRetries
    THEN /\ tasks' = [tasks EXCEPT ![t].retries = @ + 1]
         /\ LET q == QEnqueue(heap, seq, t, priority[t])
            IN  /\ heap' = q.h
                /\ seq' = q.seq
         /\ events' = emitEvent(events, t, Event("Rescheduled", t, ""))
         /\ watched' = Unwatch(watched, t)
         /\ UNCHANGED <<stats, task>>
    ELSE /\ stats' = RecordFailure(stats, t, "")
         /\ events' = emitEvent(events, t, Event("Failed", getTask(tasks, t), ""))
         /\ UNCHANGED <<heap, seq, tasks, task, watched>>

\* OnTaskStalled(taskID)
OnTaskStalled(t) ==
    IF ~tasks[t].present
    THEN UNCHANGED <<heap, seq, tasks, stats, events, task, watched>>
    ELSE IF tasks[t].retries < MaxRetries
    THEN /\ tasks' = [tasks EXCEPT ![t].retries = @ + 1]
         /\ LET q == QEnqueue(heap, seq, t, priority[t])
            IN  /\ heap' = q.h
                /\ seq' = q.seq
         /\ events' = emitEvent(events, t, Event("Rescheduled", t, ""))
         /\ UNCHANGED <<stats, task, watched>>
    ELSE /\ stats' = RecordFailure(stats, t, "")
         /\ events' = emitEvent(events, t, Event("Failed", getTask(tasks, t), ""))
         /\ UNCHANGED <<heap, seq, tasks, task, watched>>

\* A checkTasks that looks at the stall before the timeout.
MonitorCheckStallFirst(t) ==
    /\ ~stop.pollExited
    /\ watched[t].on
    /\ CanEmit
    /\ IF IsStalled(watched[t])
       THEN OnTaskStalled(t)
       ELSE IF IsTimedOut(watched[t])
       THEN OnTaskTimeout(t)
       ELSE UNCHANGED <<heap, seq, tasks, stats, events, task, watched>>
    /\ UNCHANGED <<dequeued, priority, timeout, req, dispatchCalls, sched, loop, budget, selection, stop, config, run, subs, snaps>>

\* pollLoop's ticker case, one entry of a checkTasks tick: timeout first, else
\* stall, else nothing.
MonitorCheck(t) ==
    /\ ~stop.pollExited
    /\ watched[t].on
    /\ CanEmit
    /\ IF IsTimedOut(watched[t])
       THEN OnTaskTimeout(t)
       ELSE IF IsStalled(watched[t])
       THEN OnTaskStalled(t)
       ELSE UNCHANGED <<heap, seq, tasks, stats, events, task, watched>>
    /\ UNCHANGED <<dequeued, priority, timeout, req, dispatchCalls, sched, loop, budget, selection, stop, config, run, subs, snaps>>

\* scheduleLoop's ticker case (from "idle", the select) or processQueue's next
\* iteration (from "peek"): Peek, and tryDispatch on the head up to the Dispatch
\* call; with an empty queue or a failed selection processQueue returns.
LoopPeek(out) ==
    /\ loop.pc \in {"idle", "peek"}
    /\ ~stop.loopExited
    /\ LET head == QPeek(heap)
       IN  IF head = << >>
           THEN /\ loop' = LoopIdle
                /\ UNCHANGED <<task, tasks, dispatchCalls>>
           ELSE LET t == head[1].task
                    sel == TryDispatchSelect(req[t], out)
                IN  IF sel.ok
                    THEN /\ DispatchBegin(t, sel.node)
                         /\ loop' = [pc |-> "dispatching", task |-> t, node |-> sel.node]
                    ELSE /\ loop' = LoopIdle
                         /\ UNCHANGED <<task, tasks, dispatchCalls>>
    /\ UNCHANGED <<heap, seq, dequeued, priority, timeout, req, watched, stats,
                   events, sched, budget, selection, stop, config, run, subs, snaps>>

\* processQueue: Dispatch returns; on an error the tick ends.
LoopDispatchReturn(ok) ==
    /\ loop.pc = "dispatching"
    /\ IF ok
       THEN /\ DispatchDone(loop.task, loop.node)
            /\ loop' = [loop EXCEPT !.pc = "dequeue"]
       ELSE /\ loop' = LoopIdle
            /\ UNCHANGED <<stats, watched, events>>
    /\ dispatchCalls' = DispatchReturned(dispatchCalls, loop.task, ok)
    /\ UNCHANGED <<heap, seq, dequeued, priority, timeout, task, req, tasks,
                   sched, budget, selection, stop, config, run, subs, snaps>>

\* processQueue: s.queue.Dequeue() after a successful tryDispatch, then the
\* next iteration.
LoopDequeue ==
    /\ loop.pc = "dequeue"
    /\ LET d == QDequeue(heap)
       IN  heap' = d.h
    /\ loop' = [LoopIdle EXCEPT !.pc = "peek"]
    /\ UNCHANGED <<seq, dequeued, priority, timeout, task, req, tasks, watched, stats, events,
                   dispatchCalls, sched, budget, selection, stop, config, run, subs, snaps>>

\* Stop(ctx) on the scheduler, which stops the monitor too: stopCh is closed
\* once; a loop blocked in its select takes the stopCh case and returns, a loop
\* inside processQueue goes on. Returns nil, on every call.
Stop ==
    /\ stop' = [closed |-> TRUE,
                loopExited |-> stop.loopExited \/ loop.pc = "idle",
                pollExited |-> TRUE]
    /\ UNCHANGED <<heap, seq, dequeued, priority, timeout, task, req, tasks, watched,
                   stats, events, dispatchCalls, sched, loop, budget, selection, config, run, subs, snaps>>

\* scheduleLoop back at its select after Stop: with stopCh closed and a tick
\* waiting in ticker.C both cases are ready and select takes either; this is
\* the stopCh case, LoopPeek from "idle" is the other.
LoopExit ==
    /\ stop.closed
    /\ ~stop.loopExited
    /\ loop.pc = "idle"
    /\ stop' = [stop EXCEPT !.loopExited = TRUE]
    /\ UNCHANGED <<heap, seq, dequeued, priority, timeout, task, req, tasks, watched,
                   stats, events, dispatchCalls, sched, loop, budget, selection, config, run, subs, snaps>>

\* Time passes.
Tick ==
    /\ watched' = Elapse(watched)
    /\ UNCHANGED <<heap, seq, dequeued, priority, timeout, task, req, tasks,
                   stats, events, dispatchCalls, sched, loop, budget, selection, stop, config, run, subs, snaps>>

Next ==
    \/ ScheduleNilTask
    \/ \E t \in Tasks, r \in Requests, out \in ProviderOutcomes : ScheduleCall(t, r, out)
    \/ \E t \in Tasks, ok \in BOOLEAN : ScheduleDispatchReturn(t, ok)
    \/ \E t \in Tasks : Cancel(t)
    \/ \E t \in Tasks : ReportProgress(t)
    \/ \E t \in Tasks, success \in BOOLEAN : ReportResult(t, success)
    \/ \E t \in Tasks : MonitorCheck(t)
    \/ \E out \in ProviderOutcomes : LoopPeek(out)
    \/ \E ok \in BOOLEAN : LoopDispatchReturn(ok)
    \/ LoopDequeue
    \/ Tick

Spec == Init /\ [][Next]_vars

\* Weights that count the capabilities only.
CapabilityOnly ==
    [capability |-> 100, skill |-> 0, resource |-> 0, load |-> 0, tag |-> 0, affinity |-> 0]

\* The scheduler built from a configuration with the default weights or with
\* weights of its own.
WeightsInit ==
    /\ heap = << >>
    /\ seq = 0
    /\ dequeued = << >>
    /\ priority = [t \in Tasks |-> IF t = "t1" THEN 1 ELSE MaxPriority]
    /\ budget = MaxEvents
    /\ selection = NoSelection("kept")
    /\ config \in {[DefaultSchedulerConfig EXCEPT !.scoringWeights = w] :
                      w \in {DefaultScoringWeights, CapabilityOnly}}
    /\ NewScheduler

WeightsSpec == WeightsInit /\ [][Next]_vars

\* The scheduler with workers that never report and callers that never cancel:
\* Schedule, the schedule loop and the monitor only.
SilentInit ==
    /\ heap = << >>
    /\ seq = 0
    /\ dequeued = << >>
    /\ priority = [t \in Tasks |-> IF t = "t1" THEN 1 ELSE MaxPriority]
    /\ budget = MaxSilentEvents
    /\ selection = NoSelection("kept")
    /\ SchedInit

SilentNext ==
    \/ \E t \in Tasks, r \in Requests, out \in ProviderOutcomes : ScheduleCall(t, r, out)
    \/ \E t \in Tasks, ok \in BOOLEAN : ScheduleDispatchReturn(t, ok)
    \/ \E t \in Tasks : MonitorCheck(t)
    \/ \E out \in ProviderOutcomes : LoopPeek(out)
    \/ \E ok \in BOOLEAN : LoopDispatchReturn(ok)
    \/ LoopDequeue
    \/ Tick

SilentSpec == SilentInit /\ [][SilentNext]_vars

\* The scheduler with Stop, and workers that never report.
StopNext ==
    \/ \E t \in Tasks, r \in Requests, out \in ProviderOutcomes : ScheduleCall(t, r, out)
    \/ \E t \in Tasks, ok \in BOOLEAN : ScheduleDispatchReturn(t, ok)
    \/ \E t \in Tasks : MonitorCheck(t)
    \/ \E out \in ProviderOutcomes : LoopPeek(out)
    \/ \E ok \in BOOLEAN : LoopDispatchReturn(ok)
    \/ LoopDequeue
    \/ Tick
    \/ Stop
    \/ LoopExit

StopSpec == Init /\ [][StopNext]_vars

\* A call in progress: Schedule or processQueue waits for Dispatch to return,
\* or processQueue is about to dequeue.
InFlight == loop.pc # "idle" \/ \E t \in Tasks : sched[t].pc = "dispatching"

\* The scheduler driven by one caller at a time: an operation starts only
\* when no other is in progress.
SeqNext ==
    \/ ~InFlight /\ \E t \in Tasks, r \in Requests, out \in ProviderOutcomes : ScheduleCall(t, r, out)
    \/ \E t \in Tasks, ok \in BOOLEAN : ScheduleDispatchReturn(t, ok)
    \/ ~InFlight /\ \E t \in Tasks : Cancel(t)
    \/ ~InFlight /\ \E t \in Tasks : ReportProgress(t)
    \/ ~InFlight /\ \E t \in Tasks, success \in BOOLEAN : ReportResult(t, success)
    \/ ~InFlight /\ \E t \in Tasks : MonitorCheck(t)
    \/ (~InFlight \/ loop.pc = "peek") /\ \E out \in ProviderOutcomes : LoopPeek(out)
    \/ \E ok \in BOOLEAN : LoopDispatchReturn(ok)
    \/ LoopDequeue
    \/ ~InFlight /\ Tick

SeqSpec == Init /\ [][SeqNext]_vars

\* --------------------------------------------------------------------------
\* The schedule loop ticking fairly over a provider and a dispatcher that
\* always succeed
\* --------------------------------------------------------------------------

\* ListProfiles succeeds with no node yet
NoNodeYet == [err |-> FALSE, profiles |-> << >>]

\* ListProfiles succeeds with the node g1, online, idle and capable
NodeUp == [err |-> FALSE, profiles |-> <<Profile("g1", "online", {"exec"}, 10, 0)>>]

\* One iteration of scheduleLoop's work while g1 is up and Dispatch succeeds
LoopStep ==
    \/ LoopPeek(NodeUp)
    \/ LoopDispatchReturn(TRUE)
    \/ LoopDequeue

\* Requests are submitted before the node comes up or after; from then on the
\* node stays eligible and every Dispatch returns nil.
ProgressNext ==
    \/ \E t \in Tasks, r \in Requests, out \in {NoNodeYet, NodeUp} : ScheduleCall(t, r, out)
    \/ \E t \in Tasks : ScheduleDispatchReturn(t, TRUE)
    \/ LoopStep

ProgressSpec ==
    /\ SilentInit
    /\ [][ProgressNext]_vars
    /\ WF_vars(LoopStep)
    /\ \A t \in Tasks : WF_vars(ScheduleDispatchReturn(t, TRUE))

\* --------------------------------------------------------------------------
\* Silent workers under a fair monitor and a fair schedule loop
\* --------------------------------------------------------------------------

\* Schedule, the schedule loop with g1 up and Dispatch succeeding, the monitor
\* and the clock; the workers report nothing.
SilentRunNext ==
    \/ \E t \in Tasks, r \in Requests, out \in {NoNodeYet, NodeUp} : ScheduleCall(t, r, out)
    \/ \E t \in Tasks : ScheduleDispatchReturn(t, TRUE)
    \/ LoopStep
    \/ \E t \in Tasks : MonitorCheck(t)
    \/ Tick

SilentRunSpec ==
    /\ SilentInit
    /\ [][SilentRunNext]_vars
    /\ WF_vars(LoopStep)
    /\ WF_vars(Tick)
    /\ \A t \in Tasks : WF_vars(MonitorCheck(t))
    /\ \A t \in Tasks : WF_vars(ScheduleDispatchReturn(t, TRUE))

\* --------------------------------------------------------------------------
\* The queue on its own: any sequence of Enqueue, Dequeue and Remove calls
\* --------------------------------------------------------------------------

QInit ==
    /\ heap = << >>
    /\ seq = 0
    /\ dequeued = << >>
    /\ priority \in [Tasks -> Priorities]
    /\ budget = 0
    /\ selection = NoSelection("kept")
    /\ SchedInit

QueueEnqueue(t) ==
    /\ Len(heap) < MaxQueue
    /\ seq < MaxSeq
    /\ LET q == QEnqueue(heap, seq, t, priority[t])
       IN  /\ heap' = q.h
           /\ seq' = q.seq
    /\ UNCHANGED <<dequeued, priority, svars>>

QueueDequeue ==
    /\ LET d == QDequeue(heap)
       IN  /\ heap' = d.h
           /\ dequeued' = d.ret
    /\ UNCHANGED <<seq, priority, svars>>

QueueRemove(t) ==
    /\ heap' = QRemove(heap, t).h
    /\ UNCHANGED <<seq, dequeued, priority, svars>>

QNext ==
    \/ \E t \in Tasks : QueueEnqueue(t)
    \/ QueueDequeue
    \/ \E t \in Tasks : QueueRemove(t)

QSpec == QInit /\ [][QNext]_vars

\* --------------------------------------------------------------------------
\* The selectors called directly
\* --------------------------------------------------------------------------

\* The longest candidate list, but for LongList.
MaxCands == 2

\* The profiles the candidate lists are made of: g1 and g2 differ in a tag
\* only, g3 lacks the capability and is busy, g4 is offline.
SelProfiles ==
    { [Profile("g1", "online", {"exec"}, 10, 0) EXCEPT !.tags = ("zone" :> "a" @@ "tier" :> "x")],
      [Profile("g2", "online", {"exec"}, 10, 0) EXCEPT !.tags = ("zone" :> "a" @@ "tier" :> "y")],
      Profile("g3", "online", {}, 80, 5),
      Profile("g4", "offline", {"exec", "gpu"}, 10, 0) }

\* A list one longer than insertionMax, all online with the capability: the
\* 1st, 4th and 7th are idle and share the top score, the 3rd is half busy,
\* the others are busy.
LongList ==
    [i \in 1..(insertionMax + 1) |->
        Profile(<<"n1", "n2", "n3", "n4", "n5", "n6", "n7", "n8", "n9", "n10",
                  "n11", "n12", "n13">>[i],
                "online", {"exec"},
                IF i \in {1, 4, 7} THEN 10 ELSE IF i = 3 THEN 50 ELSE 80,
                IF i \in {1, 3, 4, 7} THEN 0 ELSE 5)]

SelCandidates ==
    UNION {[1..n -> SelProfiles] : n \in 0..MaxCands} \cup {LongList}

SelCaps == {<< >>, <<"exec">>, <<"exec", "gpu">>}

AIRequests ==
    {Request(AIMode, "", c, g) :
        c \in SelCaps,
        g \in {NoTags, "zone" :> "a", "zone" :> "a" @@ "tier" :> "x"}}

DirectRequests ==
    {Request(DirectMode, n, c, NoTags) :
        n \in {"", "g1", "g3", "g4", "g9", "n7"}, c \in SelCaps}

SelInit ==
    /\ heap = << >>
    /\ seq = 0
    /\ dequeued = << >>
    /\ priority = [t \in Tasks |-> 1]
    /\ budget = 0
    /\ selection \in {NoSelection(ties) : ties \in {"kept", "reversed"}}
    /\ SchedInit

\* AISelector.Select(ctx, r, cands), the tag loop visiting the keys in order;
\* the model follows one call.
SelectAI(r, cands, order) ==
    /\ selection.kind = "none"
    /\ selection' = [selection EXCEPT !.kind = "ai", !.req = r, !.cands = cands,
                                      !.order = order,
                                      !.decision = AISelect(r, cands, order, selection.ties)]
    /\ UNCHANGED <<heap, seq, dequeued, priority, timeout, task, req, tasks, watched,
                   stats, events, dispatchCalls, sched, loop, budget, stop, config, run, subs, snaps>>

\* DirectSelector.Select(ctx, r, cands)
SelectDirect(r, cands) ==
    /\ selection.kind = "none"
    /\ selection' = [selection EXCEPT !.kind = "direct", !.req = r, !.cands = cands,
                                      !.order = << >>,
                                      !.decision = DirectSelect(r, cands)]
    /\ UNCHANGED <<heap, seq, dequeued, priority, timeout, task, req, tasks, watched,
                   stats, events, dispatchCalls, sched, loop, budget, stop, config, run, subs, snaps>>

SelNext ==
    \/ \E r \in AIRequests, cands \in SelCandidates :
          \E order \in KeyOrders(r.tags) : SelectAI(r, cands, order)
    \/ \E r \in DirectRequests, cands \in SelCandidates : SelectDirect(r, cands)

SelSpec == SelInit /\ [][SelNext]_vars

\* ScheduleHints: none, empty, an Affinity, an AntiAffinity list, and both,
\* naming the same node or different ones.
AffHints ==
    {NoHints}
    \cup {[set |-> TRUE, affinity |-> a, antiAffinity |-> anti] :
            a \in {"", "g1", "g2", "n4"},
            anti \in {<< >>, <<"g1">>, <<"g3", "g2">>, <<"n1">>, <<"n1", "n4">>}}

\* AI-mode requests with hints and no preferred tags.
AffRequests ==
    {[Request(AIMode, "", c, NoTags) EXCEPT !.hints = h] :
        c \in {<< >>, <<"exec">>}, h \in AffHints}

AffNext == \E r \in AffRequests, cands \in SelCandidates : SelectAI(r, cands, << >>)

\* AISelector.Select on requests with hints.
AffSpec == SelInit /\ [][AffNext]_vars

\* The longest selector list.
MaxSelectors == 2

\* NewCompositeSelector(selectors...): the lists of inner selectors.
SelectorLists == UNION {[1..n -> {"direct", "ai"}] : n \in 0..MaxSelectors}

\* Requests with and without a target and a required capability; neither
\* selector looks at the mode.
CompositeRequests ==
    {Request(AIMode, n, c, NoTags) : n \in {"", "g1", "g4", "g9"}, c \in {<< >>, <<"exec">>}}

\* CompositeSelector.Select(ctx, r, cands) of the selector built from sels;
\* the model follows one call.
SelectComposite(sels, r, cands) ==
    /\ selection.kind = "none"
    /\ LET res == CompositeSelect(sels, r, cands, selection.ties)
       IN  selection' = [ties |-> selection.ties, kind |-> "composite", req |-> r,
                         cands |-> cands, order |-> << >>, decision |-> res.decision,
                         selectors |-> sels, calls |-> res.calls]
    /\ UNCHANGED <<heap, seq, dequeued, priority, timeout, task, req, tasks, watched,
                   stats, events, dispatchCalls, sched, loop, budget, stop, config, run, subs, snaps>>

CompositeNext ==
    /\ selection.kind = "none"
    /\ \E sels \in SelectorLists, r \in CompositeRequests, cands \in SelCandidates :
          SelectComposite(sels, r, cands)

CompositeSpec == SelInit /\ [][CompositeNext]_vars

\* --------------------------------------------------------------------------
\* The statistics collector and its snapshots
\* --------------------------------------------------------------------------

\* The calls followed in one behaviour.
MaxSnapOps == 4

\* The node IDs the Record* calls are made with.
StatNodes == {"g1", "g2"}

SnapInit ==
    /\ heap = << >>
    /\ seq = 0
    /\ dequeued = << >>
    /\ priority = [t \in Tasks |-> 1]
    /\ budget = 0
    /\ selection = NoSelection("kept")
    /\ SchedInit

\* RecordAssignment(t, node), with the Assigned event the scheduler emits
\* along with it.
StatsAssignment(t, node) ==
    /\ stats' = RecordAssignment(stats, t, node)
    /\ snaps' = [bumpNode(snaps, node, "assigned") EXCEPT !.ops = @ + 1]
    /\ events' = emitEvent(events, t, Event("Assigned", t, node))

\* RecordCompletion or RecordFailure(t, node), with the event.
StatsResult(t, node, success) ==
    /\ stats' = IF success THEN RecordCompletion(stats, t, node)
                           ELSE RecordFailure(stats, t, node)
    /\ snaps' = IF node = "" \/ (success /\ t \notin stats.running)
                THEN [snaps EXCEPT !.ops = @ + 1]
                ELSE [bumpNode(snaps, node, IF success THEN "completed" ELSE "failed")
                         EXCEPT !.ops = @ + 1]
    /\ events' = emitEvent(events, t, Event(IF success THEN "Completed" ELSE "Failed", t, node))

\* RecordCancellation or RecordTimeout(t), with the event.
StatsDropped(t, cancelled) ==
    /\ stats' = IF cancelled THEN RecordCancellation(stats, t) ELSE RecordTimeout(stats, t)
    /\ snaps' = [snaps EXCEPT !.ops = @ + 1]
    /\ events' = emitEvent(events, t, Event(IF cancelled THEN "Cancelled" ELSE "TimedOut", t, ""))

\* Snapshot(queueLen): the caller keeps the value returned.
TakeSnapshot(queueLen) ==
    /\ snaps' = [Snapshot(snaps, stats, queueLen) EXCEPT
                     !.expected = Append(@, stats.nodes), !.ops = @ + 1]
    /\ UNCHANGED <<stats, events>>

\* The holder of the k-th snapshot writes to it: TasksAssigned of an entry
\* (how = "field"), or delete(snap.NodeStats, node) (how = "delete").
MutateSnapshot(k, node, how) ==
    /\ k \in 1..Len(snaps.taken)
    /\ LET a == snaps.taken[k].nodeStats
       IN  /\ node \in DOMAIN snaps.maps[a]
           /\ snaps' =
                 IF how = "field"
                 THEN [snaps EXCEPT !.cells[snaps.maps[a][node]].assigned = 99,
                                    !.expected[k][node].assigned = 99,
                                    !.ops = @ + 1]
                 ELSE [snaps EXCEPT
                          !.maps[a] = [n \in DOMAIN @ \ {node} |-> @[n]],
                          !.expected[k] = [n \in DOMAIN @ \ {node} |-> @[n]],
                          !.ops = @ + 1]
    /\ UNCHANGED <<stats, events>>

SnapNext ==
    /\ snaps.ops < MaxSnapOps
    /\ \/ \E t \in Tasks, node \in StatNodes : StatsAssignment(t, node)
       \/ \E t \in Tasks, node \in {"", "g1"}, success \in BOOLEAN :
             StatsResult(t, node, success)
       \/ \E t \in Tasks, cancelled \in BOOLEAN : StatsDropped(t, cancelled)
       \/ \E queueLen \in 0..1 : TakeSnapshot(queueLen)
       \/ \E k \in 1..MaxSnapOps, node \in StatNodes, how \in {"field", "delete"} :
             MutateSnapshot(k, node, how)
    /\ UNCHANGED <<heap, seq, dequeued, priority, timeout, task, req, tasks, watched,
                   dispatchCalls, sched, loop, budget, selection, stop, config, run, subs>>

SnapSpec == SnapInit /\ [][SnapNext]_vars

\* --------------------------------------------------------------------------
\* The constraint check alone
\* --------------------------------------------------------------------------

\* SkillInfo values: the installed skill s1 is named "web".
ChkSkills == {<< >>, <<[id |-> "s1", name |-> "web"]>>}

\* Nodes that differ in status, capabilities, skills, features and in one of
\* the figures a resource requirement looks at.
ChkProfiles ==
    {[Profile("g1", st, caps, load[1], load[2]) EXCEPT
          !.skills = sk, !.features = ft, !.cpuCores = sys[1], !.memoryMB = sys[2],
          !.diskFreeMB = sys[3], !.memoryPercent = load[3]] :
        st \in {"online", "offline"}, caps \in {{}, {"exec"}},
        sk \in ChkSkills, ft \in {<< >>, <<"gpu">>},
        sys \in {<<4, 8192, 10240>>, <<1, 8192, 10240>>, <<4, 512, 10240>>, <<4, 8192, 100>>},
        load \in {<<10, 0, 10>>, <<90, 0, 10>>, <<10, 3, 10>>, <<10, 0, 90>>}}

\* ResourceRequirements: nil, all zero, one field set (positive or negative),
\* and all fields set.
ChkRequirements ==
    {NoRequirements, [NoRequirements EXCEPT !.set = TRUE]}
    \cup {[NoRequirements EXCEPT !.set = TRUE, !.minCPUCores = v] : v \in {2, -1}}
    \cup {[NoRequirements EXCEPT !.set = TRUE, !.minMemoryMB = v] : v \in {1024, -1}}
    \cup {[NoRequirements EXCEPT !.set = TRUE, !.minDiskFreeMB = v] : v \in {1024, -1}}
    \cup {[NoRequirements EXCEPT !.set = TRUE, !.maxCPUPercent = v] : v \in {50, -1}}
    \cup {[NoRequirements EXCEPT !.set = TRUE, !.maxMemoryPercent = v] : v \in {50, -1}}
    \cup {[NoRequirements EXCEPT !.set = TRUE, !.maxActiveTasks = v] : v \in {2, -1}}
    \cup {[set |-> TRUE, minCPUCores |-> 2, minMemoryMB |-> 1024, minDiskFreeMB |-> 1024,
           maxCPUPercent |-> 50, maxMemoryPercent |-> 50, maxActiveTasks |-> 2]}

ChkRequests ==
    {[Request(AIMode, "", caps, NoTags) EXCEPT !.skills = sk, !.features = ft, !.rr = rr] :
        caps \in {<< >>, <<"exec">>}, sk \in {<< >>, <<"s1">>, <<"web">>, <<"s1", "s2">>},
        ft \in {<< >>, <<"gpu">>}, rr \in ChkRequirements}

ChkInit ==
    /\ heap = << >>
    /\ seq = 0
    /\ dequeued = << >>
    /\ priority = [t \in Tasks |-> 1]
    /\ budget = 0
    /\ selection = NoSelection("kept")
    /\ SchedInit

\* constraintChecker.check(r, p); the model follows one call, and keeps the
\* request and the profile as they are after it.
CheckCall(r, p) ==
    /\ selection.kind = "none"
    /\ selection' = [selection EXCEPT !.kind = "check", !.req = r, !.cands = <<p>>,
                                      !.decision = SelectFailed(check(r, p))]
    /\ UNCHANGED <<heap, seq, dequeued, priority, timeout, task, req, tasks, watched,
                   stats, events, dispatchCalls, sched, loop, budget, stop, config, run, subs, snaps>>

ChkNext ==
    /\ selection.kind = "none"
    /\ \E r \in ChkRequests, p \in ChkProfiles : CheckCall(r, p)

ChkSpec == ChkInit /\ [][ChkNext]_vars

\* --------------------------------------------------------------------------
\* The goroutines of a started scheduler, by their lock operations
\* --------------------------------------------------------------------------

\* A scheduler that has been constructed and holds no task.
Quiet ==
    /\ heap = << >>
    /\ seq = 0
    /\ dequeued = << >>
    /\ priority = [t \in Tasks |-> 1]
    /\ budget = 0
    /\ selection = NoSelection("kept")
    /\ timeout = [t \in Tasks |-> IF t = "t1" THEN 0 ELSE 1]
    /\ task = [t \in Tasks |-> NewTask]
    /\ req = [t \in Tasks |-> NoRequest]
    /\ tasks = [t \in Tasks |-> NoRecord]
    /\ watched = [t \in Tasks |-> NotWatched]
    /\ stats = [submitted |-> 0, completed |-> 0, failed |-> 0, cancelled |-> 0,
                timedOut |-> 0, running |-> {}, nodes |-> << >>]
    /\ events = [t \in Tasks |-> << >>]
    /\ dispatchCalls = [t \in Tasks |-> << >>]
    /\ sched = [t \in Tasks |-> NotCalled]
    /\ loop = LoopIdle
    /\ stop = NotStopped

LockInit ==
    /\ Quiet
    /\ subs = NoSubs
    /\ snaps = NoSnaps
    /\ config = DefaultSchedulerConfig
    /\ run = NoRun

LockUnchanged ==
    UNCHANGED <<heap, seq, dequeued, priority, timeout, task, req, tasks, watched,
                stats, events, dispatchCalls, sched, loop, budget, selection, stop,
                config, subs, snaps>>

\* Goroutine g enters one of its operations.
Call(g, op) ==
    /\ ~Running(g)
    /\ op \in TopOps(g)
    /\ run' = [run EXCEPT !.stack[g] = Settle(<<Frame(op, "api")>>)]
    /\ LockUnchanged

\* mu.Lock() / mu.RLock(): g waits until the mutex can be taken.
Acquire(g) ==
    /\ Running(g)
    /\ Instr(g).k \in {"Lock", "RLock"}
    /\ LET m == Instr(g).x
       IN  /\ IF Instr(g).k = "Lock" THEN CanLock(m) ELSE CanRLock(m)
           /\ run' = [run EXCEPT
                  !.held[g][m] = IF Instr(g).k = "Lock" THEN [@ EXCEPT !.w = TRUE]
                                 ELSE [@ EXCEPT !.r = @ + 1],
                  !.stack[g] = Settle(Advanced(g))]
    /\ LockUnchanged

\* mu.Unlock() / mu.RUnlock()
Release(g) ==
    /\ Running(g)
    /\ Instr(g).k \in {"Unlock", "RUnlock"}
    /\ LET m == Instr(g).x
       IN  run' = [run EXCEPT
                  !.held[g][m] = IF Instr(g).k = "Unlock" THEN [@ EXCEPT !.w = FALSE]
                                 ELSE [@ EXCEPT !.r = @ - 1],
                  !.stack[g] = Settle(Advanced(g))]
    /\ LockUnchanged

\* l.OnEvent(event): the listener returns, or calls back into the scheduler.
OnEvent(g, op) ==
    /\ Running(g)
    /\ Instr(g).k = "OnEvent"
    /\ op \in ListenerOps
    /\ op # "return" => Reentries(g) < MaxReentry
    /\ run' = [run EXCEPT
           !.stack[g] = Settle(Append(Advanced(g), Frame(op, "listener")))]
    /\ LockUnchanged

\* m.handler.OnTaskTimeout(ctx, id) / m.handler.OnTaskStalled(ctx, id)
Handle(g, op) ==
    /\ Running(g)
    /\ Instr(g).k = "handler"
    /\ op \in HandlerOps(Instr(g).x)
    /\ run' = [run EXCEPT
           !.stack[g] = Settle(Append(Advanced(g), Frame(op, "handler")))]
    /\ LockUnchanged

LockNext ==
    \E g \in Goroutines :
        \/ \E op \in TopOps(g) : Call(g, op)
        \/ Acquire(g)
        \/ Release(g)
        \/ \E op \in ListenerOps : OnEvent(g, op)
        \/ \E op \in {"OnTaskTimeout", "OnTaskStalled.unknown", "OnTaskStalled.retry",
                      "OnTaskStalled.failed"} : Handle(g, op)

LockSpec == LockInit /\ [][LockNext]_vars

\* --------------------------------------------------------------------------
\* Listener registration and event delivery on their own
\* --------------------------------------------------------------------------

SubsInit ==
    /\ Quiet
    /\ config = DefaultSchedulerConfig
    /\ run = NoRun
    /\ subs = NoSubs
    /\ snaps = NoSnaps

SubsUnchanged ==
    UNCHANGED <<heap, seq, dequeued, priority, timeout, task, req, tasks, watched,
                stats, events, dispatchCalls, sched, loop, budget, selection, stop,
                config, run, snaps>>

\* Subscribe(listener)
Subscribe(l) ==
    /\ Len(subs.listeners) < MaxListeners
    /\ subs' = [subs EXCEPT !.listeners = Append(@, l)]
    /\ SubsUnchanged

\* Unsubscribe(listener): the first equal listener is removed; the call
\* panics when it compares two funcs.
Unsubscribe(l) ==
    /\ LET i == FirstMatch(subs.listeners, l)
       IN  IF i = 0
           THEN UNCHANGED subs
           ELSE IF ComparePanics(subs.listeners[i], l)
           THEN UNCHANGED subs
           ELSE subs' = [subs EXCEPT !.listeners = removeAt(@, i)]
    /\ SubsUnchanged

\* emitEvent up to RUnlock: the listeners are copied.
EmitBegin(e) ==
    /\ subs.emitting[e].ev = 0
    /\ Len(subs.began) < MaxEmits
    /\ LET ev == Len(subs.began) + 1
       IN  subs' = [subs EXCEPT
               !.began = Append(@, subs.listeners),
               !.delivered = Append(@, << >>),
               !.emitting[e] = IF subs.listeners = << >> THEN NotEmitting
                               ELSE [ev |-> ev, snap |-> subs.listeners, pos |-> 1]]
    /\ SubsUnchanged

\* emitEvent's loop: l.OnEvent(event) for the next listener of the copy.
Deliver(e) ==
    /\ subs.emitting[e].ev # 0
    /\ LET em == subs.emitting[e]
       IN  subs' = [subs EXCEPT
               !.delivered[em.ev] = Append(@, em.snap[em.pos]),
               !.emitting[e] = IF em.pos = Len(em.snap) THEN NotEmitting
                               ELSE [em EXCEPT !.pos = @ + 1]]
    /\ SubsUnchanged

SubsNext ==
    \/ \E l \in Listeners : Subscribe(l)
    \/ \E l \in Listeners : Unsubscribe(l)
    \/ \E e \in Emitters : EmitBegin(e)
    \/ \E e \in Emitters : Deliver(e)

SubsSpec == SubsInit /\ [][SubsNext]_vars

\* --------------------------------------------------------------------------
\* SchedulerConfig.Complete called directly
\* --------------------------------------------------------------------------

\* The configurations handed to Complete: negative, zero and positive values,
\* with and without collaborators.
Configs ==
    [dispatchConcurrency : {-1, 0, 1, 8},
     scheduleLoopInterval : {-1, 0, 500},
     pollInterval : {-1, 0, 10000},
     stallThreshold : {0, 60000},
     defaultTimeout : {0, 300000},
     scoringWeights : {DefaultScoringWeights},
     provider : BOOLEAN, dispatcher : BOOLEAN,
     completed : {<< >>}]

CfgInit ==
    /\ Quiet
    /\ run = NoRun
    /\ subs = NoSubs
    /\ snaps = NoSnaps
    /\ config \in Configs

\* config.Complete(provider, dispatcher)
CompleteConfig ==
    /\ config.completed = << >>
    /\ config' = [config EXCEPT !.completed = <<Complete(config)>>]
    /\ UNCHANGED <<heap, seq, dequeued, priority, timeout, task, req, tasks, watched,
                   stats, events, dispatchCalls, sched, loop, budget, selection, stop, run, subs, snaps>>

CfgNext == CompleteConfig

CfgSpec == CfgInit /\ [][CfgNext]_vars

\* --------------------------------------------------------------------------
\* Properties: the priority queue
\* --------------------------------------------------------------------------

\* C1: Dequeue returns a queued request that no other queued request beats:
\* every request left in the queue has a lower priority, or the same priority
\* and a later insertion sequence number; sequence numbers follow the order
\* of the Enqueue calls.
C1_DequeueOrder ==
    [][ /\ \A k \in 1..Len(heap') :
             heap'[k] \notin {heap[m] : m \in 1..Len(heap)}
                 => (Len(heap') = Len(heap) + 1 /\ heap'[k].seq = seq' /\ seq' = seq + 1)
        /\ (dequeued' # dequeued /\ dequeued' # << >>) =>
            /\ \E k \in 1..Len(heap) : heap[k] = dequeued'[1]
            /\ Len(heap') = Len(heap) - 1
            /\ \A k \in 1..Len(heap') :
                  /\ \E m \in 1..Len(heap) : heap[m] = heap'[k]
                  /\ \/ dequeued'[1].priority > heap'[k].priority
                     \/ /\ dequeued'[1].priority = heap'[k].priority
                        /\ dequeued'[1].seq < heap'[k].seq ]_vars

\* A Dequeue returned a request while an earlier request of lower priority and
\* a later request of the same priority stay queued.
C1_Witness ==
    /\ dequeued # << >>
    /\ \E k \in 1..Len(heap) :
          heap[k].priority < dequeued[1].priority /\ heap[k].seq < dequeued[1].seq
    /\ \E k \in 1..Len(heap) :
          heap[k].priority = dequeued[1].priority /\ heap[k].seq > dequeued[1].seq

\* --------------------------------------------------------------------------
\* Properties: the scheduler
\* --------------------------------------------------------------------------

\* The positions of the events of one of the given types in an event log.
EventsOf(es, types) == {i \in 1..Len(es) : es[i].type \in types}

TerminalEvents == {"Completed", "Failed", "TimedOut", "Cancelled"}

InQueue(t) == \E k \in 1..Len(heap) : heap[k].task = t

\* C2: once a task's Status is terminal it never changes again.
C2_StatusMonotonic ==
    [][\A t \in Tasks :
          task[t].status \in Terminal => task'[t].status = task[t].status]_vars

\* C3: whenever no call is in progress, every submitted task whose status is
\* not terminal is in the queue or watched by the monitor, and not both.
C3_QueueXorWatched ==
    \A t \in Tasks :
        (~InFlight /\ sched[t].pc = "returned" /\ task[t].status \notin Terminal)
            => (InQueue(t) # watched[t].on)

\* C4: the Assigned events of a task are, in order and node by node, the
\* Dispatch calls for that task that returned nil; a Dispatch call that failed
\* or is still in flight has no Assigned event.
C4_AssignedIffDispatched ==
    \A t \in Tasks :
        LET es == SelectSeq(events[t], LAMBDA e : e.type = "Assigned")
            ds == SelectSeq(dispatchCalls[t], LAMBDA d : d.result = "ok")
        IN  /\ Len(es) = Len(ds)
            /\ \A i \in 1..Len(es) : es[i].task = t /\ es[i].node = ds[i].node

\* A task whose first Dispatch failed, with no Assigned event for it, and whose
\* second Dispatch returned nil, with one.
C4_Witness ==
    \E t \in Tasks :
        /\ Len(dispatchCalls[t]) = 2
        /\ dispatchCalls[t][1].result = "err"
        /\ dispatchCalls[t][2].result = "ok"
        /\ Cardinality(EventsOf(events[t], {"Assigned"})) = 1

\* C5: no task has more than MaxRetries Rescheduled events.
C5_RetryCap ==
    \A t \in Tasks : Cardinality(EventsOf(events[t], {"Rescheduled"})) <= MaxRetries

\* C6: per task, Submitted comes first if at all, a terminal event is the last
\* event (so nothing follows it and there is no second one), and Progress and
\* Rescheduled come only after an Assigned.
C6_EventOrder ==
    \A t \in Tasks : \A i \in 1..Len(events[t]) :
        LET e == events[t][i]
        IN  /\ e.type = "Submitted" => i = 1
            /\ e.type \in TerminalEvents => i = Len(events[t])
            /\ e.type \in {"Progress", "Rescheduled"}
                   => \E j \in 1..(i - 1) : events[t][j].type = "Assigned"
            /\ e.type \in TerminalEvents
                   => \E j \in 1..(i - 1) : events[t][j].type \in {"Submitted", "Assigned"}

\* C7: a Schedule call that starts emits nothing and queues nothing before its
\* Dispatch returns; a Schedule call that returns an error returns no decision,
\* has added exactly one request, the task's, to the queue, and has emitted
\* exactly one event, the task's only Submitted; when the failure is at
\* selection the dispatcher has not been called.
C7_ScheduleFailure ==
    [][\A t \in Tasks :
          /\ (sched[t].pc = "idle" /\ sched'[t].pc = "dispatching")
                => (events' = events /\ heap' = heap)
          /\ (sched[t].pc # "returned" /\ sched'[t].pc = "returned" /\ sched'[t].err) =>
                /\ sched'[t].decision = ""
                /\ Len(heap') = Len(heap) + 1
                /\ ~InQueue(t)
                /\ \E k \in 1..Len(heap') :
                      heap'[k] = [task |-> t, priority |-> priority[t], seq |-> seq']
                /\ events' = [events EXCEPT ![t] = Append(@, Event("Submitted", t, ""))]
                /\ Cardinality(EventsOf(events'[t], {"Submitted"})) = 1
                /\ sched[t].pc = "idle" => dispatchCalls' = dispatchCalls]_vars

\* One Schedule failed at selection (a direct target without the capability or
\* absent: no Dispatch call) and another failed at Dispatch; both are queued.
C7_Witness ==
    \E t, u \in Tasks :
        /\ sched[t].pc = "returned" /\ sched[t].err
        /\ req[t].mode = DirectMode /\ req[t].target = "g1"
        /\ dispatchCalls[t] = << >>
        /\ sched[u].pc = "returned" /\ sched[u].err
        /\ Len(dispatchCalls[u]) = 1 /\ dispatchCalls[u][1].result = "err"
        /\ Len(heap) = 2
        /\ events[t] = <<Event("Submitted", t, "")>>
        /\ events[u] = <<Event("Submitted", u, "")>>

\* C8: with one caller at a time, a Schedule call that returns without error
\* returns the selected node as its decision, has called Dispatch exactly once,
\* with that node, has queued nothing, has emitted exactly one event, Assigned
\* for that task and node, and leaves the task Assigned to that node and watched.
C8_ScheduleSuccess ==
    [][\A t \in Tasks :
          /\ (sched[t].pc = "idle" /\ sched'[t].pc = "dispatching")
                => (events' = events /\ heap' = heap /\ dispatchCalls[t] = << >>)
          /\ (sched[t].pc = "dispatching" /\ sched'[t].pc = "returned" /\ ~sched'[t].err) =>
                LET node == sched'[t].decision
                IN  /\ node # ""
                    /\ dispatchCalls'[t] = <<[node |-> node, result |-> "ok"]>>
                    /\ heap' = heap
                    /\ ~\E k \in 1..Len(heap') : heap'[k].task = t
                    /\ events' = [events EXCEPT ![t] = Append(@, Event("Assigned", t, node))]
                    /\ task'[t].status = "Assigned"
                    /\ task'[t].assignedNodeID = node
                    /\ watched'[t].on]_vars

\* A Schedule call returned the decision g2, chosen by score among two nodes.
C8_Witness ==
    \E t \in Tasks :
        /\ sched[t].pc = "returned" /\ ~sched[t].err
        /\ sched[t].decision = "g2"
        /\ req[t].mode = AIMode
        /\ events[t] = <<Event("Assigned", t, "g2")>>
        /\ task[t].status = "Assigned" /\ task[t].assignedNodeID = "g2"
        /\ watched[t].on

\* C9: a Schedule call with an unknown Mode, or with DirectMode and an empty
\* TargetNodeID, leaves the queue, the task table, the watched set and the
\* statistics unchanged and emits no event.
C9_ValidationNoMutation ==
    [][\A t \in Tasks, r \in Requests, out \in ProviderOutcomes :
          ( /\ r.mode \notin {DirectMode, AIMode} \/ (r.mode = DirectMode /\ r.target = "")
            /\ ScheduleCall(t, r, out) )
              => UNCHANGED <<heap, tasks, watched, stats, events>>]_vars

\* C10: Cancel of a task that is already Cancelled, or that was never
\* submitted, changes no status, no statistics, neither the queue nor the
\* watched set, and emits no event.
C10_CancelIdempotent ==
    [][\A t \in Tasks :
          ((task[t].status = "Cancelled" \/ sched[t].pc = "idle") /\ Cancel(t))
              => UNCHANGED <<task, stats, heap, watched, events>>]_vars

\* --------------------------------------------------------------------------
\* Properties: the monitor callbacks
\* --------------------------------------------------------------------------

\* C11: a monitor tick on a watched task past its timeout emits exactly one
\* TimedOut event, sets the Status to TimedOut, removes the task from the
\* watched set and adds one to TotalTimedOut, whatever the last heartbeat; and
\* a task that has a TimedOut event is never watched, hence never reported, again.
C11_TimeoutTerminal ==
    [][\A t \in Tasks :
          /\ (watched[t].on /\ IsTimedOut(watched[t]) /\ MonitorCheck(t)) =>
                /\ events' = [events EXCEPT ![t] = Append(@, Event("TimedOut", t, ""))]
                /\ task'[t].status = "TimedOut"
                /\ ~watched'[t].on
                /\ stats'.timedOut = stats.timedOut + 1
          /\ EventsOf(events[t], {"TimedOut"}) # {} => ~watched'[t].on]_vars

\* C12: a monitor tick that finds a task stalled with its retries used up
\* emits exactly one Failed event and no Rescheduled, does not re-enqueue,
\* sets the Status to Failed and ends the watch, so that no later tick reports
\* the task again.
C12_StallExhaustion ==
    [][\A t \in Tasks :
          ( /\ watched[t].on /\ ~IsTimedOut(watched[t]) /\ IsStalled(watched[t])
            /\ tasks[t].present /\ tasks[t].retries >= MaxRetries
            /\ MonitorCheck(t) ) =>
                /\ events' = [events EXCEPT ![t] = Append(@, Event("Failed", t, ""))]
                /\ heap' = heap
                /\ stats'.failed = stats.failed + 1
                /\ task'[t].status = "Failed"
                /\ ~watched'[t].on]_vars

\* --------------------------------------------------------------------------
\* Properties: the selectors
\* --------------------------------------------------------------------------

\* C13: an AISelector.Select call returns the same decision (node, Scores,
\* counts) whatever the order in which the PreferredTags map is iterated.
C13_ScoringDeterminism ==
    selection.kind = "ai" =>
        \A o \in KeyOrders(selection.req.tags) :
            AISelect(selection.req, selection.cands, o, selection.ties) = selection.decision

\* A decision over two eligible candidates for a request with two preferred
\* tags, one candidate matching only one of them.
C13_Witness ==
    /\ selection.kind = "ai"
    /\ Len(selection.order) = 2
    /\ selection.decision.ok
    /\ selection.decision.eligibleCount = 2
    /\ \E k \in 1..Len(selection.decision.scores) :
          selection.decision.scores[k].tag = 500

\* C14: AISelector.Select fails iff no candidate is online with every required
\* capability; otherwise it selects the first candidate of the input list among
\* those eligible ones whose TotalScore is maximal, and the decision has one
\* score per candidate, a RejectReason on the ineligible ones, and the counts
\* of candidates and of eligible candidates.
C14_AISelection ==
    selection.kind = "ai" =>
        LET d  == selection.decision
            r  == selection.req
            cs == selection.cands
            elig == {k \in 1..Len(cs) :
                        /\ cs[k].status = "online"
                        /\ \A c \in 1..Len(r.caps) : r.caps[c] \in cs[k].caps}
        IN  /\ d.ok <=> elig # {}
            /\ d.ok =>
                /\ \E k \in elig :
                      /\ cs[k].id = d.node
                      /\ \A m \in elig :
                            \/ d.scores[k].total > d.scores[m].total
                            \/ d.scores[k].total = d.scores[m].total /\ k <= m
                /\ Len(d.scores) = Len(cs)
                /\ \A k \in 1..Len(cs) :
                      /\ d.scores[k].nodeID = cs[k].id
                      /\ d.scores[k].eligible <=> k \in elig
                      /\ k \notin elig => d.scores[k].rejectReason # ""
                /\ d.candidateCount = Len(cs)
                /\ d.eligibleCount = Cardinality(elig)

\* C15: DirectSelector.Select fails when the target ID is empty, when no
\* candidate has it, or when the first candidate that has it is not online or
\* lacks a required capability (the error being that reason); otherwise the
\* decision has Mode direct, the target as SelectedNodeID, EligibleCount 1 and
\* CandidateCount the number of candidates.
C15_DirectSelection ==
    selection.kind = "direct" =>
        LET d  == selection.decision
            r  == selection.req
            cs == selection.cands
            hit == {k \in 1..Len(cs) : cs[k].id = r.target}
            first == CHOOSE k \in hit : \A m \in hit : k <= m
        IN  IF r.target = "" \/ hit = {}
            THEN ~d.ok /\ d.err # ""
            ELSE IF cs[first].status # "online"
            THEN ~d.ok /\ d.err = "node status is not online"
            ELSE IF \E c \in 1..Len(r.caps) : r.caps[c] \notin cs[first].caps
            THEN ~d.ok /\ d.err = "missing required capability"
            ELSE /\ d.ok
                 /\ d.mode = DirectMode
                 /\ d.node = r.target
                 /\ d.eligibleCount = 1
                 /\ d.candidateCount = Len(cs)

\* The target g3, busy and second in the list behind an idle node, is selected.
C15_Witness ==
    /\ selection.kind = "direct"
    /\ selection.decision.ok
    /\ selection.req.target = "g3"
    /\ Len(selection.cands) = 2
    /\ selection.cands[1].id = "g1"
    /\ selection.decision.node = "g3"
    /\ selection.decision.candidateCount = 2

\* --------------------------------------------------------------------------
\* Properties: Stop
\* --------------------------------------------------------------------------

\* C16: Stop changes neither the queue, the task table, the watched set nor any
\* Status, a second Stop changes nothing at all, and once stopCh is closed the
\* schedule loop starts no new tick (what it does after Stop belongs to the
\* processQueue call that was in progress) and the monitor checks no task.
C16_StopSemantics ==
    [][ /\ (~stop.closed /\ stop'.closed) => UNCHANGED <<heap, tasks, task, watched>>
        /\ stop.closed => stop'.closed
        /\ (stop.closed /\ loop.pc = "idle") => loop' = loop
        /\ stop.closed => ~\E t \in Tasks : MonitorCheck(t) ]_vars

\* --------------------------------------------------------------------------
\* Properties: the task table
\* --------------------------------------------------------------------------

\* C18: for every task in the task table, StartedAt is set iff the Status is
\* Assigned or a terminal one, and CompletedAt is set iff the Status is terminal.
C18_Timestamps ==
    \A t \in Tasks :
        tasks[t].present =>
            /\ task[t].startedAt <=> task[t].status \in ({"Assigned"} \cup Terminal)
            /\ task[t].completedAt <=> task[t].status \in Terminal

\* C20: Status fails for a task ID that was never submitted, and returns the
\* task for every task whose Schedule call has returned, dispatched or queued.
C20_StatusLookup ==
    \A t \in Tasks :
        /\ sched[t].pc = "idle" => Status(tasks, t).err
        /\ sched[t].pc = "returned" => Status(tasks, t) = [err |-> FALSE, task |-> t]

\* --------------------------------------------------------------------------
\* Properties: the configuration
\* --------------------------------------------------------------------------

\* C19: Complete returns an error iff the provider or the dispatcher is nil;
\* otherwise the sealed configuration has DispatchConcurrency at least 1 and
\* every duration positive: ScheduleLoopInterval, PollInterval, StallThreshold
\* and DefaultTimeout, a non-positive one being replaced by its default and a
\* positive one kept.
C19_ConfigCompletion ==
    config.completed # << >> =>
        LET c == config.completed[1]
        IN  /\ c.err # "" <=> (~config.provider \/ ~config.dispatcher)
            /\ c.err = "" =>
                /\ c.dispatchConcurrency >= 1
                /\ c.scheduleLoopInterval =
                      (IF config.scheduleLoopInterval <= 0 THEN 500
                       ELSE config.scheduleLoopInterval)
                /\ c.pollInterval =
                      (IF config.pollInterval <= 0 THEN 10000 ELSE config.pollInterval)
                /\ c.stallThreshold =
                      (IF config.stallThreshold <= 0 THEN 60000 ELSE config.stallThreshold)
                /\ c.defaultTimeout =
                      (IF config.defaultTimeout <= 0 THEN 300000 ELSE config.defaultTimeout)

\* --------------------------------------------------------------------------
\* Properties: locking
\* --------------------------------------------------------------------------

\* A goroutine waiting for a mutex that cannot be taken now
Blocked(g) ==
    /\ Running(g)
    /\ \/ Instr(g).k = "Lock" /\ ~CanLock(Instr(g).x)
       \/ Instr(g).k = "RLock" /\ ~CanRLock(Instr(g).x)

\* C17: a goroutine about to invoke a listener's OnEvent holds the scheduler's
\* mu in no mode, whatever the event and the emitting operation, and the
\* monitor invokes its timeout and stall handlers without holding the
\* watched-set mutex; so a listener calling Subscribe, Unsubscribe, Status or
\* Cancel from inside OnEvent never waits for a mutex its own goroutine holds,
\* and the goroutines never all wait.
C17_ListenersOutsideLock ==
    /\ \A g \in Goroutines :
          Running(g) =>
              /\ Instr(g).k = "OnEvent" => run.held[g]["mu"] = NotHeld["mu"]
              /\ Instr(g).k = "handler" => run.held[g]["mon"] = NotHeld["mon"]
              /\ Instr(g).k = "Lock" => run.held[g][Instr(g).x] = NotHeld[Instr(g).x]
              /\ Instr(g).k = "RLock" => ~run.held[g][Instr(g).x].w
    /\ (\E g \in Goroutines : Running(g)) =>
          \E g \in Goroutines : Running(g) /\ ~Blocked(g)

\* The poll goroutine fired OnTaskTimeout, the Timed-out event reached a
\* listener, and the listener is inside Subscribe holding mu.
C17_Witness ==
    LET st == run.stack["poll"]
    IN  /\ Len(st) = 3
        /\ st[1].op = "checkTasks.timeout"
        /\ st[2].op = "OnTaskTimeout" /\ st[2].by = "handler"
        /\ st[3].op = "Subscribe" /\ st[3].by = "listener"
        /\ run.held["poll"]["mu"].w

\* --------------------------------------------------------------------------
\* Properties: dispatching
\* --------------------------------------------------------------------------

\* The Dispatch calls that have started and not returned
PendingDispatches ==
    {c \in Tasks \X (1..MaxDispatch) :
        /\ c[2] <= Len(dispatchCalls[c[1]])
        /\ dispatchCalls[c[1]][c[2]].result = "pending"}

\* C21: at any instant the number of Dispatch calls in flight, over all
\* Schedule callers and the schedule loop, is at most DispatchConcurrency.
C21_DispatchConcurrency == Cardinality(PendingDispatches) <= DispatchConcurrency

\* --------------------------------------------------------------------------
\* Properties: listeners
\* --------------------------------------------------------------------------

Registrations(ls, l) == Cardinality({i \in 1..Len(ls) : ls[i] = l})

Without(ls, l) == SelectSeq(ls, LAMBDA x : x # l)

IsPrefix(a, b) == Len(a) <= Len(b) /\ SubSeq(b, 1, Len(a)) = a

EmissionOver(ev) == \A e \in Emitters : subs.emitting[e].ev # ev

\* C22: the listeners registered when an emission begins receive the event
\* once per registration, in registration order, whatever is subscribed or
\* unsubscribed meanwhile; an Unsubscribe(l) that returns for a listener
\* registered once leaves the other listeners in their order and l out of
\* the list, so that no emission beginning afterwards includes l.
C22_ListenerRegistration ==
    /\ [](\A ev \in 1..Len(subs.began) :
            /\ IsPrefix(subs.delivered[ev], subs.began[ev])
            /\ EmissionOver(ev) => subs.delivered[ev] = subs.began[ev])
    /\ [][/\ \A l \in Listeners :
                (Unsubscribe(l) /\ Registrations(subs.listeners, l) = 1
                    /\ ~ComparePanics(subs.listeners[FirstMatch(subs.listeners, l)], l))
                    => subs'.listeners = Without(subs.listeners, l)
          /\ \A e \in Emitters :
                EmitBegin(e) => subs'.began[Len(subs'.began)] = subs.listeners
          /\ \A l \in Listeners :
                Subscribe(l) => subs'.listeners = Append(subs.listeners, l)]_vars

\* l1 was unsubscribed from between l2 and f1 while the first event was being
\* delivered: the first event reached all three in order, the second one,
\* begun afterwards, the other two only.
C22_Witness ==
    /\ Len(subs.began) = 2
    /\ subs.delivered[1] = <<"l2", "l1", "f1">>
    /\ subs.delivered[2] = <<"l2", "f1">>
    /\ subs.listeners = <<"l2", "f1">>

\* --------------------------------------------------------------------------
\* Properties: the queue and the task's status
\* --------------------------------------------------------------------------

\* C23: whenever a request is in the queue its task's Status is Pending, and
\* the task carries no AssignedNodeID and no StartedAt: a stall-triggered
\* reschedule puts the task back to Pending, and a failed Dispatch leaves
\* nothing of the attempt on the task.
C23_QueuedIsPending ==
    \A t \in Tasks :
        InQueue(t) =>
            /\ task[t].status = "Pending"
            /\ task[t].assignedNodeID = ""
            /\ ~task[t].startedAt

\* The requests in the queue, each with the seq it was enqueued under
Items(h) == {[task |-> h[k].task, seq |-> h[k].seq] : k \in 1..Len(h)}

\* C24: the schedule loop's Dequeue after a successful tryDispatch removes
\* exactly the request that was dispatched, whatever Schedule, Cancel and
\* OnTaskStalled did to the queue since the Peek: the dispatched request does
\* not stay in the queue and no other request leaves it.
C24_LoopRemovesDispatched ==
    [][LoopDequeue =>
          \E it \in Items(heap) :
              /\ it.task = loop.task
              /\ Items(heap') = Items(heap) \ {it}]_vars

\* A queued request of strictly higher priority than t's that the selector
\* would place on a node of the profile snapshot out
Overtaken(t, out) ==
    \E u \in Tasks :
        /\ InQueue(u)
        /\ priority[u] > priority[t]
        /\ TryDispatchSelect(req[u], out).ok

\* C25: a request is never assigned to a node, by Schedule's immediate
\* dispatch or by the schedule loop, while a request of strictly higher
\* priority that is dispatchable under the same profile snapshot waits in the
\* queue.
C25_PriorityRespected ==
    [][/\ \A t \in Tasks, r \in Requests, out \in ProviderOutcomes :
            (ScheduleCall(t, r, out) /\ TryDispatchSelect(r, out).ok)
                => ~Overtaken(t, out)
       /\ \A out \in ProviderOutcomes :
            (LoopPeek(out) /\ loop'.pc = "dispatching")
                => ~Overtaken(loop'.task, out)]_vars

\* --------------------------------------------------------------------------
\* Properties: cancellation
\* --------------------------------------------------------------------------

\* Cancel(t) has returned for a task the scheduler had a record of: its
\* Cancelled event carries the task.
CancelReturned(t) ==
    \E i \in 1..Len(events[t]) :
        events[t][i].type = "Cancelled" /\ events[t][i].task = t

\* C26: after Cancel has returned for a known task, the task is neither
\* queued nor watched, no Dispatch call is made for it and no Assigned,
\* Rescheduled, TimedOut or Failed event is emitted for it.
C26_CancelFinal ==
    /\ [](\A t \in Tasks : CancelReturned(t) => ~InQueue(t) /\ ~watched[t].on)
    /\ [][\A t \in Tasks :
            CancelReturned(t) =>
                /\ Len(dispatchCalls'[t]) = Len(dispatchCalls[t])
                /\ \A i \in (Len(events[t]) + 1)..Len(events'[t]) :
                      events'[t][i].type \notin
                          {"Assigned", "Rescheduled", "TimedOut", "Failed"}]_vars

\* --------------------------------------------------------------------------
\* Properties: the queue under the monitor and the schedule loop
\* --------------------------------------------------------------------------

\* C27: with every task ID submitted through Schedule at most once, the
\* queue never holds two requests for one task ID.
C27_QueueUniqueness ==
    \A t \in Tasks :
        Cardinality({k \in 1..Len(heap) : heap[k].task = t}) <= 1

\* The selector places t's request on a node while g1 is up.
Dispatchable(t) == TryDispatchSelect(req[t], NodeUp).ok

\* Some Dispatch call for t returned nil.
DispatchedOK(t) ==
    \E i \in 1..Len(dispatchCalls[t]) : dispatchCalls[t][i].result = "ok"

\* C28: with the schedule loop ticking fairly and the provider and the
\* dispatcher succeeding, a queued request for which a node stays eligible is
\* eventually dispatched, whatever else is in the queue.
C28_QueueProgress ==
    \A t \in Tasks : (InQueue(t) /\ Dispatchable(t)) ~> DispatchedOK(t)

\* The model lets t go no further: the event budget is used up or t has been
\* dispatched as often as the model follows it.
BoundReached(t) == ~CanEmit \/ Len(dispatchCalls[t]) >= MaxDispatch

\* C29: with the monitor and the schedule loop running fairly, a dispatched
\* task whose worker never reports eventually has a terminal Status and is
\* then neither queued nor watched (as far as the model follows the task).
C29_SilentTasksTerminate ==
    \A t \in Tasks :
        (task[t].status = "Assigned" /\ watched[t].on)
            ~> \/ task[t].status \in Terminal /\ ~InQueue(t) /\ ~watched[t].on
               \/ BoundReached(t)

\* --------------------------------------------------------------------------
\* Properties: the monitor's tick
\* --------------------------------------------------------------------------

\* C30: on a tick, for a watched task: if the time since Watch exceeds its
\* timeout the monitor invokes OnTaskTimeout and removes the task from the
\* watched set, and does not invoke OnTaskStalled even when the task is
\* stalled too; otherwise, if the time since the last heartbeat exceeds
\* StallThreshold, it invokes OnTaskStalled and leaves the task watched as it
\* was; otherwise nothing happens for the task.
C30_MonitorTick ==
    [][\A t \in Tasks :
          MonitorCheck(t) =>
              IF IsTimedOut(watched[t])
              THEN /\ OnTaskTimeout(t)
                   /\ events'[t] = Append(events[t], Event("TimedOut", getTask(tasks, t), ""))
                   /\ ~watched'[t].on
                   /\ heap' = heap /\ tasks' = tasks
                   /\ stats'.failed = stats.failed
              ELSE IF IsStalled(watched[t])
              THEN /\ OnTaskStalled(t)
                   /\ watched'[t] = watched[t]
                   /\ stats'.timedOut = stats.timedOut
              ELSE UNCHANGED <<heap, seq, tasks, stats, events, task, watched>>]_vars

\* t2, whose timeout equals the stall threshold, was assigned and heard of no
\* more: on the tick where it was both timed out and stalled it got the
\* TimedOut event only and left the watched set.
C30_Witness ==
    /\ Len(events["t2"]) = 2
    /\ events["t2"][1].type = "Assigned"
    /\ events["t2"][2].type = "TimedOut"
    /\ ~watched["t2"].on
    /\ stats.timedOut = 1

\* --------------------------------------------------------------------------
\* Properties: heartbeats and stalls
\* --------------------------------------------------------------------------

\* The monitor's step on t reported a stall: OnTaskStalled emitted its
\* Rescheduled or its Failed event.
StallReported(t) ==
    /\ MonitorCheck(t)
    /\ Len(events'[t]) = Len(events[t]) + 1
    /\ events'[t][Len(events'[t])].type \in {"Rescheduled", "Failed"}

\* C31: ReportProgress resets the stall timer of a watched task and changes
\* nothing else of the watched set, and for a task that is not watched it
\* changes nothing; a stall is reported for a task only when more than
\* StallThreshold has passed since its last heartbeat, so a task whose
\* progress reports are no further apart than that is never reported and never
\* rescheduled.
C31_HeartbeatSuppressesStall ==
    [][\A t \in Tasks :
          /\ ReportProgress(t) =>
                /\ watched[t].on =>
                      watched' = [watched EXCEPT ![t].sinceHeartbeat = 0]
                /\ ~watched[t].on => watched' = watched
                /\ heap' = heap /\ tasks' = tasks
          /\ StallReported(t) => watched[t].sinceHeartbeat > StallThreshold]_vars

\* t1 reported progress in time: two clock ticks after Watch it is watched,
\* its last heartbeat is recent and no stall has been reported.
C31_Witness ==
    /\ Len(events["t1"]) = 2
    /\ events["t1"][1].type = "Assigned"
    /\ events["t1"][2].type = "Progress"
    /\ watched["t1"].on
    /\ watched["t1"].sinceStart = 2
    /\ watched["t1"].sinceHeartbeat <= StallThreshold

\* --------------------------------------------------------------------------
\* Properties: stalls after a reschedule
\* --------------------------------------------------------------------------

\* OnTaskStalled has re-enqueued t at least once.
WasRescheduled(t) ==
    \E i \in 1..Len(events[t]) : events[t][i].type = "Rescheduled"

\* C32 as stated: once OnTaskStalled has rescheduled a task, no later monitor
\* step reports a stall for it.
C32_NoStallAfterReschedule ==
    [][\A t \in Tasks : WasRescheduled(t) => ~StallReported(t)]_vars

\* C32, amended: the reschedule leaves the watched entry as it was, the task
\* is then queued, watched and still stalled, and every later monitor step
\* that finds a rescheduled task stalled and not timed out reports the stall
\* again, as Rescheduled while retries remain and as Failed otherwise.
C32_StallFiresAgain ==
    [][\A t \in Tasks :
          /\ (StallReported(t) /\ events'[t][Len(events'[t])].type = "Rescheduled") =>
                /\ watched' = watched
                /\ IsStalled(watched'[t])
                /\ InQueue(t)'
          /\ ( /\ MonitorCheck(t)
               /\ WasRescheduled(t)
               /\ tasks[t].present
               /\ IsStalled(watched[t])
               /\ ~IsTimedOut(watched[t]) ) =>
                /\ StallReported(t)
                /\ events'[t][Len(events'[t])].type =
                      IF tasks[t].retries < MaxRetries THEN "Rescheduled" ELSE "Failed"]_vars

\* t1 was assigned, stalled and was rescheduled, and the next monitor step
\* reported the stall once more: with its retries used up it was failed while
\* still queued and watched.
C32_Witness ==
    /\ Len(events["t1"]) = 3
    /\ events["t1"][1].type = "Assigned"
    /\ events["t1"][2].type = "Rescheduled"
    /\ events["t1"][3].type = "Failed"
    /\ watched["t1"].on
    /\ InQueue("t1")

\* --------------------------------------------------------------------------
\* Properties: the constraint check
\* --------------------------------------------------------------------------

\* The checks of a request against a node in the order status, capabilities,
\* skills, features and the six resource requirements, each with whether it
\* passes and the reason it gives when it does not; a resource requirement
\* for which isSet(v) is false passes.
Checks(r, p, isSet(_)) ==
    << [ok |-> p.status = "online", reason |-> "node status is not online"],
       [ok |-> \A k \in 1..Len(r.caps) : r.caps[k] \in p.caps,
        reason |-> "missing required capability"],
       [ok |-> \A k \in 1..Len(r.skills) :
                  \E i \in 1..Len(p.skills) :
                     r.skills[k] = p.skills[i].id \/ r.skills[k] = p.skills[i].name,
        reason |-> "missing required skill"],
       [ok |-> \A k \in 1..Len(r.features) :
                  \E i \in 1..Len(p.features) : r.features[k] = p.features[i],
        reason |-> "missing required feature"],
       [ok |-> (r.rr.set /\ isSet(r.rr.minCPUCores)) => p.cpuCores >= r.rr.minCPUCores,
        reason |-> "insufficient CPU cores"],
       [ok |-> (r.rr.set /\ isSet(r.rr.minMemoryMB)) => p.memoryMB >= r.rr.minMemoryMB,
        reason |-> "insufficient memory"],
       [ok |-> (r.rr.set /\ isSet(r.rr.minDiskFreeMB)) => p.diskFreeMB >= r.rr.minDiskFreeMB,
        reason |-> "insufficient disk"],
       [ok |-> (r.rr.set /\ isSet(r.rr.maxCPUPercent)) => p.cpuPercent <= r.rr.maxCPUPercent,
        reason |-> "CPU usage too high"],
       [ok |-> (r.rr.set /\ isSet(r.rr.maxMemoryPercent)) =>
                  p.memoryPercent <= r.rr.maxMemoryPercent,
        reason |-> "memory usage too high"],
       [ok |-> (r.rr.set /\ isSet(r.rr.maxActiveTasks)) => p.activeTasks <= r.rr.maxActiveTasks,
        reason |-> "too many active tasks"] >>

\* The answer the list of checks calls for: "" when all pass, else the
\* reason of the first that does not.
FirstFailing(cs) ==
    IF \A k \in 1..Len(cs) : cs[k].ok
    THEN ""
    ELSE cs[CHOOSE k \in 1..Len(cs) : ~cs[k].ok /\ \A m \in 1..(k - 1) : cs[m].ok].reason

\* check was called on the request and the node that selection holds.
Checked == selection.kind = "check"

Avoided(r, id) ==
    r.hints.set /\ \E k \in 1..Len(r.hints.antiAffinity) : r.hints.antiAffinity[k] = id

\* Two scores that agree in every subscore but the affinity.
SameButAffinity(a, b) ==
    /\ a.capability = b.capability
    /\ a.skill = b.skill
    /\ a.resource = b.resource
    /\ a.load = b.load
    /\ a.tag = b.tag

C35_ConfiguredWeights ==
    [][\A t \in Tasks, r \in Requests, out \in ProviderOutcomes :
          (ScheduleCall(t, r, out) /\ r.mode = AIMode /\ sched'[t].pc = "dispatching") =>
              sched'[t].node =
                  AISelectBy(config.scoringWeights, r, out.profiles,
                             CHOOSE o \in KeyOrders(r.tags) : TRUE, selection.ties).node]_vars

\* --------------------------------------------------------------------------
\* Properties: the composite selector
\* --------------------------------------------------------------------------

\* C36: the composite calls its selectors in list order up to and including
\* the first that succeeds and returns that one's decision; it fails exactly
\* when every selector in the list fails, having called them all, and its
\* error then wraps the error of the last selector in the list.
C36_CompositeOrder ==
    selection.kind = "composite" =>
        LET sels == selection.selectors
            outs == [i \in 1..Len(sels) |->
                        InnerSelect(sels[i], selection.req, selection.cands, selection.ties)]
            won == {i \in 1..Len(sels) : outs[i].ok}
        IN  /\ selection.decision.ok <=> won # {}
            /\ won # {} =>
                  LET k == CHOOSE i \in won : \A j \in won : i <= j
                  IN  /\ selection.decision = outs[k]
                      /\ selection.calls = SubSeq(sels, 1, k)
            /\ won = {} =>
                  /\ selection.calls = sels
                  /\ selection.decision.err.failed = Len(sels)
                  /\ Len(sels) > 0 => selection.decision.err.wrapped = outs[Len(sels)].err

\* direct before ai on a request whose target is not among the candidates,
\* none of which is eligible: both were called, in that order, and the error
\* wraps the AI selector's.
C36_Witness ==
    /\ selection.kind = "composite"
    /\ selection.selectors = <<"direct", "ai">>
    /\ selection.calls = <<"direct", "ai">>
    /\ ~selection.decision.ok
    /\ selection.decision.err = AllFailed(2, "no eligible Golem nodes")
    /\ selection.req.target = "g9"

\* direct before ai on a request without a target: the direct selector
\* failed, the AI selector's decision was returned.
C36_WitnessFallback ==
    /\ selection.kind = "composite"
    /\ selection.selectors = <<"direct", "ai">>
    /\ selection.calls = <<"direct", "ai">>
    /\ selection.decision.ok
    /\ selection.decision.mode = AIMode

\* --------------------------------------------------------------------------
\* Properties: the statistics
\* --------------------------------------------------------------------------

\* C37: the tasks counted as completed, failed, cancelled or timed out are
\* never more than the tasks submitted.
C37_TerminalCounters ==
    stats.completed + stats.failed + stats.cancelled + stats.timedOut <= stats.submitted

\* The Assigned events whose NodeID is the node, over all tasks.
AssignedEvents(node) ==
    {<<t, i>> \in Tasks \X (1..MaxSilentEvents) :
        i <= Len(events[t]) /\ events[t][i].type = "Assigned" /\ events[t][i].node = node}

\* C38: for every node, the results counted for it are no more than the
\* tasks assigned to it, and the tasks assigned to it are as many as the
\* Assigned events that name it.
C38_NodeStats ==
    /\ \A node \in DOMAIN stats.nodes :
          /\ stats.nodes[node].completed + stats.nodes[node].failed
                <= stats.nodes[node].assigned
          /\ stats.nodes[node].assigned = Cardinality(AssignedEvents(node))
    /\ \A t \in Tasks : \A i \in 1..Len(events[t]) :
          events[t][i].type = "Assigned" => events[t][i].node \in DOMAIN stats.nodes

\* --------------------------------------------------------------------------
\* Properties: snapshots
\* --------------------------------------------------------------------------

\* The tasks assigned and not completed, failed, cancelled or timed out since.
AssignedUnfinished ==
    {t \in Tasks : Len(events[t]) > 0 /\ events[t][Len(events[t])].type = "Assigned"}

\* C39: Snapshot(queueLen) returns CurrentQueued = queueLen, CurrentRunning =
\* the number of tasks assigned and not finished since, the counters and a
\* NodeStats map that reads as the collector's; the map and its entries are
\* the snapshot's own: whatever Record* calls follow and whatever the holders
\* of snapshots write to them, every snapshot reads as what its holder made
\* of it, and the collector's statistics are what the Record* calls made them.
C39_SnapshotIsolation ==
    /\ [](/\ ViewOf(snaps, CollectorMap) = stats.nodes
          /\ \A k \in 1..Len(snaps.taken) :
                ViewOf(snaps, snaps.taken[k].nodeStats) = snaps.expected[k])
    /\ [][\A queueLen \in 0..1 :
             TakeSnapshot(queueLen) =>
                LET k == Len(snaps'.taken)
                    sn == snaps'.taken[k]
                IN  /\ k = Len(snaps.taken) + 1
                    /\ SubSeq(snaps'.taken, 1, k - 1) = snaps.taken
                    /\ sn.currentQueued = queueLen
                    /\ sn.currentRunning = Cardinality(AssignedUnfinished)
                    /\ <<sn.submitted, sn.completed, sn.failed, sn.cancelled, sn.timedOut>>
                         = <<stats.submitted, stats.completed, stats.failed,
                             stats.cancelled, stats.timedOut>>
                    /\ ViewOf(snaps', sn.nodeStats) = stats.nodes]_vars

\* A snapshot was taken when g1 had one assignment; its holder then deleted
\* nothing and wrote nothing, a second task was assigned to g1, and the
\* snapshot still reads one assignment while the collector counts two.
C39_Witness ==
    /\ Len(snaps.taken) = 1
    /\ snaps.taken[1].currentRunning = 1
    /\ ViewOf(snaps, snaps.taken[1].nodeStats) = ("g1" :> [NoNodeStats EXCEPT !.assigned = 1])
    /\ stats.nodes["g1"].assigned = 2
    /\ Cardinality(stats.running) = 2

\* --------------------------------------------------------------------------
\* Properties: Remove
\* --------------------------------------------------------------------------

\* C40: Remove(taskID) returns true exactly when a queued request has that
\* task ID; it then takes exactly one such request out of the queue, the
\* length drops by one, and the requests that stay come out of Dequeue in the
\* order in which they would have come out before; when it returns false the
\* queue is as it was.
C40_RemoveOne ==
    [][\A t \in Tasks :
          QueueRemove(t) =>
              LET r == QRemove(heap, t)
              IN  /\ r.ok <=> InQueue(t)
                  /\ r.ok =>
                        /\ Len(heap') = Len(heap) - 1
                        /\ \E k \in 1..Len(heap) :
                              /\ heap[k].task = t
                              /\ QDrain(heap') =
                                    SelectSeq(QDrain(heap), LAMBDA x : x # heap[k])
                  /\ ~r.ok => heap' = heap]_vars

\* Three requests were enqueued and none was dequeued: Remove took the first
\* of them, which the other two rank behind, out of the queue, and the two
\* that stay are still dequeued in their order.
C40_Witness ==
    /\ seq = 3
    /\ dequeued = << >>
    /\ Len(heap) = 2
    /\ {heap[k].seq : k \in 1..Len(heap)} = {2, 3}
    /\ \A k \in 1..Len(heap) : heap[k].task = "t2"
    /\ priority["t1"] >= priority["t2"]
    /\ QDrain(heap)[1].seq = 2

====
